---- MODULE Spec2Model ----
(***************************************************************************)
(* Receipt extraction: the Gemini client (services/geminiService), the      *)
(* Redux slice with its thunk (store/receiptSlice) and the localStorage     *)
(* history they keep.                                                       *)
(*                                                                          *)
(* One JavaScript task runs to completion: the variable "running" names the *)
(* attempt whose task is executing, and every dispatch inside that task is  *)
(* one step of the store (subscribers see each state).  The browser build   *)
(* is modelled (typeof window !== 'undefined').                             *)
(***************************************************************************)
EXTENDS Integers, Sequences, FiniteSets, TLC

\* ------------------------------------------------------------------ bounds
MaxAttempts == 2
CapAttempts == 11
MaxSaves == 1
OldRecords == 1
ClientCalls == 2

\* ------------------------------------------------------------ JS values
\* Scalars are strings: "<null>", "<undefined>", a number written "#n", and
\* every other string is a JavaScript string.
Null == "<null>"
Undefined == "<undefined>"
Numbers == {"#0", "#2", "#3"}
Falsy(v) == v \in {Null, Undefined, "", "#0"}
TypeofString(v) == v \notin ({Null, Undefined} \cup Numbers)
\* a || b
Or(a, b) == IF Falsy(a) THEN b ELSE a

\* Option values: null is <<>>, a value v is <<v>>.
None == <<>>
Some(v) == <<v>>

Files == {"a.jpg", "b.png"}
ApiKeys == {"", "key1"}

\* ------------------------------------------------------- string atoms
\* A response text is a sequence of atoms; whitespace atoms are " " and "\n".
Whitespace == {" ", "\n"}

RECURSIVE TrimLeft(_)
TrimLeft(s) ==
  IF s # <<>> /\ Head(s) \in Whitespace THEN TrimLeft(Tail(s)) ELSE s

RECURSIVE TrimRight(_)
TrimRight(s) ==
  IF s # <<>> /\ s[Len(s)] \in Whitespace
  THEN TrimRight(SubSeq(s, 1, Len(s) - 1))
  ELSE s

\* String.prototype.trim
Trim(s) == TrimRight(TrimLeft(s))

\* String.prototype.includes, for a token
Includes(s, token) == \E i \in DOMAIN s : s[i] = token

\* ------------------------------------------------- model-call outcomes
\* What one generateContent call (or one FileReader read) can produce.
TextResult(t) == [kind |-> "text", text |-> t, isError |-> FALSE, message |-> Undefined]
\* result.candidates?.[0]?.content?.parts?.[0]?.text is undefined
NoTextResult == [kind |-> "notext", text |-> <<>>, isError |-> FALSE, message |-> Undefined]
\* the call rejects with an Error carrying this message
ThrowError(m) == [kind |-> "throw", text |-> <<>>, isError |-> TRUE, message |-> m]
\* the call rejects with a value that is no Error
ThrowOther == [kind |-> "throw", text |-> <<>>, isError |-> FALSE, message |-> Undefined]

Thrown == {ThrowError("Network error"), ThrowError(""), ThrowOther}

\* ------------------------------------------------------ validation stage
MsgUnableToAnalyze == "Unable to analyze image. Please try with a clearer image."
MsgNotReceipt == "This image does not appear to be a payment receipt. Please upload a receipt, invoice, or bill."
MsgUnclear == "The image is too unclear to process. Please upload a clearer image of your receipt."
MsgUndetermined == "Unable to determine if this is a valid receipt. Please try with a clearer receipt image."
MsgValidateFailed == "Failed to validate image. Please try again."
MsgInvalidImage == "Invalid receipt image"
MsgNotInitialized == "Gemini service not initialized. Please provide API key."
MsgNoText == "No text content received from AI response"
MsgParseFailed == "Failed to parse AI response as JSON"
MsgMissingItems == "Invalid response format: missing items array"
MsgBadItem == "Invalid item format in response"
MsgUnknown == "Unknown error occurred during extraction"
MsgKeyRequired == "Gemini API key is required"
MsgThunkFallback == "Failed to extract receipt data"
MsgThunkUnknown == "Unknown error occurred"
MsgNullItems == "Cannot read properties of null (reading 'items')"
MsgNullName == "Cannot read properties of null (reading 'name')"

ValidationTokens == {"VALID_RECEIPT", "NOT_RECEIPT", "UNCLEAR_IMAGE"}

Valid == [isValid |-> TRUE, reason |-> Undefined]
Invalid(r) == [isValid |-> FALSE, reason |-> r]

\* a check for the word RECEIPT alone would take NOT_RECEIPT for a pass
CheckValidationTextAnyReceipt(res) ==
  LET validationText == Trim(res.text)
  IN  IF res.kind = "notext" \/ validationText = <<>> THEN Invalid(MsgUnableToAnalyze)
      ELSE IF Includes(validationText, "VALID_RECEIPT")
              \/ Includes(validationText, "NOT_RECEIPT") THEN Valid
      ELSE IF Includes(validationText, "UNCLEAR_IMAGE") THEN Invalid(MsgUnclear)
      ELSE Invalid(MsgUndetermined)

\* the checks with UNCLEAR_IMAGE looked for before NOT_RECEIPT
CheckValidationTextUnclearFirst(res) ==
  LET validationText == Trim(res.text)
  IN  IF res.kind = "notext" \/ validationText = <<>> THEN Invalid(MsgUnableToAnalyze)
      ELSE IF Includes(validationText, "VALID_RECEIPT") THEN Valid
      ELSE IF Includes(validationText, "UNCLEAR_IMAGE") THEN Invalid(MsgUnclear)
      ELSE IF Includes(validationText, "NOT_RECEIPT") THEN Invalid(MsgNotReceipt)
      ELSE Invalid(MsgUndetermined)

\* validateReceiptImage, from the model's answer on: the checks on validationText
CheckValidationText(res) ==
  LET validationText == Trim(res.text)
  IN  IF res.kind = "notext" \/ validationText = <<>> THEN Invalid(MsgUnableToAnalyze)
      ELSE IF Includes(validationText, "VALID_RECEIPT") THEN Valid
      ELSE IF Includes(validationText, "NOT_RECEIPT") THEN Invalid(MsgNotReceipt)
      ELSE IF Includes(validationText, "UNCLEAR_IMAGE") THEN Invalid(MsgUnclear)
      ELSE Invalid(MsgUndetermined)

\* validateReceiptImage's outcome for what the model call produced: its catch
\* turns every throw into a reason
ValidationOutcome(res) ==
  IF res.kind = "throw" THEN Invalid(MsgValidateFailed) ELSE CheckValidationText(res)

\* ------------------------------------------------------ extraction stage
\* Items as the model's JSON gives them.  isNull marks the JSON value null in
\* the place of an item.
Item(n, q, u, p) == [isNull |-> FALSE, name |-> n, quantity |-> q, unitPrice |-> u, price |-> p]
NullItem == [isNull |-> TRUE, name |-> Undefined, quantity |-> Undefined,
             unitPrice |-> Undefined, price |-> Undefined]
Coffee == Item("Coffee", "2", Undefined, "6.00")
Discount == Item("Store Discount", "1", "-2.00", "-2.00")
NumericPrice == Item("Tea", "1", Undefined, "#3")
NoQuantity == Item("Tea", Undefined, Undefined, "3.00")
NullName == Item(Null, "1", Undefined, "3.00")

\* A JSON document: isNull is the document null; itemsKind is what its items
\* field holds ("array", "undefined" for a missing field, "null", "string").
Object(kind, its, store, addr, ph, dt, tot, tx, cnt, cur, disc) ==
  [isNull |-> FALSE, itemsKind |-> kind, items |-> its, storeName |-> store,
   address |-> addr, phone |-> ph, date |-> dt, total |-> tot, tax |-> tx,
   totalItems |-> cnt, currency |-> cur, totalDiscount |-> disc]
Bare(kind, its) ==
  Object(kind, its, Undefined, Undefined, Undefined, Undefined, Undefined,
         Undefined, Undefined, Undefined, Undefined)
JsonNull == [Bare("undefined", <<>>) EXCEPT !.isNull = TRUE]

\* The documents the model may answer with, by name; the name is the atom that
\* stands for the document's text.
DocNames ==
  {"{full}", "{coffee}", "{empty}", "{noitems}", "{items:null}", "{items:str}",
   "{numprice}", "{noqty}", "{nullname}", "{[null]}", "null"}

DocOf(d) ==
  CASE d = "{full}" ->
         Object("array", <<Coffee, Discount>>, "Cafe", "1 Main St, Tokyo, Japan",
                "555-0100", "2024-01-31", "4.00", "0.40", "#2", "JPY", "2.00")
    [] d = "{coffee}" ->
         [Bare("array", <<Coffee>>) EXCEPT !.total = "6.00", !.currency = "USD"]
    [] d = "{empty}" ->
         [Bare("array", <<>>) EXCEPT !.total = "#0", !.totalItems = "#0",
                                     !.currency = "", !.storeName = Null]
    [] d = "{noitems}" -> [Bare("undefined", <<>>) EXCEPT !.total = "6.00"]
    [] d = "{items:null}" -> Bare("null", <<>>)
    [] d = "{items:str}" -> Bare("string", <<>>)
    [] d = "{numprice}" -> Bare("array", <<Coffee, NumericPrice>>)
    [] d = "{noqty}" -> Bare("array", <<NoQuantity>>)
    [] d = "{nullname}" -> Bare("array", <<NullName, NumericPrice>>)
    [] d = "{[null]}" -> Bare("array", <<Coffee, NullItem>>)
    [] OTHER -> JsonNull

\* text.startsWith(prefix), prefix a sequence of atoms
StartsWith(s, prefix) ==
  Len(s) >= Len(prefix) /\ SubSeq(s, 1, Len(prefix)) = prefix

\* text.replace(/<prefix>\n?/, ''), for a text that starts with prefix
DropPrefix(s, prefix) ==
  LET rest == SubSeq(s, Len(prefix) + 1, Len(s))
  IN  IF rest # <<>> /\ Head(rest) = "\n" THEN Tail(rest) ELSE rest

\* a clean-up that leaves the closing fence in the text
DropClosingFenceNever(s) == s

\* text.replace(/\n?<fence>$/, ''): the closing code fence, three backquotes,
\* is the atom "<fence>"
DropClosingFence(s) ==
  IF s # <<>> /\ s[Len(s)] = "<fence>"
  THEN LET cut == SubSeq(s, 1, Len(s) - 1)
       IN  IF cut # <<>> /\ cut[Len(cut)] = "\n"
           THEN SubSeq(cut, 1, Len(cut) - 1) ELSE cut
  ELSE s

\* the clean-up of the response text: trim, then strip the code fence
CleanText(raw) ==
  LET text == Trim(raw)
  IN  IF StartsWith(text, <<"<fence>", "json">>)
      THEN DropClosingFence(DropPrefix(text, <<"<fence>", "json">>))
      ELSE IF StartsWith(text, <<"<fence>">>)
      THEN DropClosingFence(DropPrefix(text, <<"<fence>">>))
      ELSE text

\* JSON.parse: one document, white space around it allowed; anything else throws
ParsesAsJson(text) == Len(Trim(text)) = 1 /\ Trim(text)[1] \in DocNames
JSONparse(text) == DocOf(Trim(text)[1])

\* the loop over extractedData.items: the message of the first throw, or
\* Undefined when every item passes
RECURSIVE ItemsError(_)
ItemsError(items) ==
  IF items = <<>> THEN Undefined
  ELSE LET item == Head(items)
       IN  IF item.isNull THEN MsgNullName
           ELSE IF ~TypeofString(item.name) \/ ~TypeofString(item.price)
                   \/ ~TypeofString(item.quantity)
           THEN MsgBadItem
           ELSE ItemsError(Tail(items))

\* the message thrown by the structure checks on the parsed document, or Undefined
StructureError(extractedData) ==
  IF extractedData.isNull THEN MsgNullItems
  ELSE IF extractedData.itemsKind \in {"undefined", "null"}
          \/ extractedData.itemsKind # "array"
  THEN MsgMissingItems
  ELSE ItemsError(extractedData.items)

\* extractedData.items.map(item => ({name, price, quantity, total: item.price}))
\* a map that lists the products last item first
ProductsReversed(items) ==
  [i \in DOMAIN items |->
     [name |-> items[Len(items) + 1 - i].name, price |-> items[Len(items) + 1 - i].price,
      quantity |-> items[Len(items) + 1 - i].quantity,
      total |-> items[Len(items) + 1 - i].price]]

Products(items) ==
  [i \in DOMAIN items |->
     [name |-> items[i].name, price |-> items[i].price,
      quantity |-> items[i].quantity, total |-> items[i].price]]

\* the object literal with no default for the currency
ReceiptDataNoDefault(extractedData, fileName, id, timestamp) ==
  [id |-> id,
   storeName |-> Or(extractedData.storeName, Null),
   address |-> Or(extractedData.address, Null),
   phone |-> Or(extractedData.phone, Null),
   date |-> Or(extractedData.date, Null),
   items |-> extractedData.items,
   total |-> Or(extractedData.total, Null),
   tax |-> Or(extractedData.tax, Null),
   timestamp |-> timestamp,
   fileName |-> fileName,
   totalItems |-> Or(extractedData.totalItems, Null),
   currency |-> Or(extractedData.currency, Null),
   products |-> Products(extractedData.items),
   total_spending |-> Or(extractedData.total, "#0"),
   extraction_date |-> timestamp,
   file_name |-> fileName]

\* the receiptData object literal
ReceiptData(extractedData, fileName, id, timestamp) ==
  [id |-> id,
   storeName |-> Or(extractedData.storeName, Null),
   address |-> Or(extractedData.address, Null),
   phone |-> Or(extractedData.phone, Null),
   date |-> Or(extractedData.date, Null),
   items |-> extractedData.items,
   total |-> Or(extractedData.total, Null),
   tax |-> Or(extractedData.tax, Null),
   timestamp |-> timestamp,
   fileName |-> fileName,
   totalItems |-> Or(extractedData.totalItems, Null),
   currency |-> Or(extractedData.currency, "USD"),
   products |-> Products(extractedData.items),
   total_spending |-> Or(extractedData.total, "#0"),
   extraction_date |-> timestamp,
   file_name |-> fileName]

\* ApiResponse
Success(d) == [success |-> TRUE, data |-> Some(d), error |-> Undefined]
Failure(m) == [success |-> FALSE, data |-> None, error |-> m]

\* the catch of extractReceiptData
Caught(thrown) ==
  Failure(IF thrown.isError THEN thrown.message ELSE MsgUnknown)

\* extractReceiptData from the extraction call's answer on
ExtractionOutcome(res, fileName, id, timestamp) ==
  IF res.kind = "throw" THEN Caught(res)
  ELSE IF res.kind = "notext" \/ res.text = <<>> THEN Caught(ThrowError(MsgNoText))
  ELSE LET text == CleanText(res.text)
       IN  IF ~ParsesAsJson(text) THEN Caught(ThrowError(MsgParseFailed))
           ELSE LET extractedData == JSONparse(text)
                    err == StructureError(extractedData)
                IN  IF err # Undefined THEN Caught(ThrowError(err))
                    ELSE Success(ReceiptData(extractedData, fileName, id, timestamp))

\* the payload creator's verdict on the client's result: the message it
\* rejects with, or Undefined when it returns result.data
ThunkRejection(result) ==
  IF ~result.success \/ result.data = None
  THEN Or(result.error, MsgThunkFallback)
  ELSE Undefined

\* ---------------------------------------------------------------- history
HistoryCap == 10

Min(a, b) == IF a <= b THEN a ELSE b

\* [payload, ...state.history.slice(0, 10)]: one record too many is kept
NewHistoryKeepsTen(payload, h) == <<payload>> \o SubSeq(h, 1, Min(Len(h), HistoryCap))

\* [payload, ...state.history.slice(0, 9)]
NewHistory(payload, h) == <<payload>> \o SubSeq(h, 1, Min(Len(h), HistoryCap - 1))

\* a removal that stops at the first record it drops
RECURSIVE FilterFirstOnly(_, _)
FilterFirstOnly(h, fileNameToRemove) ==
  IF h = <<>> THEN <<>>
  ELSE IF Head(h).file_name # fileNameToRemove
       THEN <<Head(h)>> \o FilterFirstOnly(Tail(h), fileNameToRemove)
       ELSE Tail(h)

\* state.history.filter(item => item.file_name !== fileNameToRemove)
RECURSIVE Filter(_, _)
Filter(h, fileNameToRemove) ==
  IF h = <<>> THEN <<>>
  ELSE IF Head(h).file_name # fileNameToRemove
       THEN <<Head(h)>> \o Filter(Tail(h), fileNameToRemove)
       ELSE Filter(Tail(h), fileNameToRemove)

\* state.history.find(item => item.file_name === fileName), as an option
RECURSIVE Find(_, _)
Find(h, fileName) ==
  IF h = <<>> THEN None
  ELSE IF Head(h).file_name = fileName THEN Some(Head(h))
       ELSE Find(Tail(h), fileName)

\* The item under the key 'receipt-extraction-history': absent, the JSON text
\* of a list, or text that JSON.parse rejects.
Absent == [kind |-> "absent", list |-> <<>>]
Corrupt == [kind |-> "corrupt", list |-> <<>>]
\* JSON text that parses to a value that is no array and has no slice, filter
\* or find: null, or an object
NotAnArray == [kind |-> "object", list |-> <<>>]

\* a writer that leaves out every falsy value, null and "" and 0 among them
JSONvalueDropsFalsy(v) ==
  IF Falsy(v) THEN <<>>
  ELSE IF v \in Numbers THEN <<"number", v>>
  ELSE <<"string", v>>

\* JSON.stringify of a property's value: a property holding undefined is left
\* out (<<>>), null is written null, a number bare and a string quoted
JSONvalue(v) ==
  IF v = Undefined THEN <<>>
  ELSE IF v = Null THEN <<"null">>
  ELSE IF v \in Numbers THEN <<"number", v>>
  ELSE <<"string", v>>

\* JSON.parse of what JSONvalue wrote: a property left out reads as undefined
JSONscalar(t) ==
  IF t = <<>> THEN Undefined
  ELSE IF t = <<"null">> THEN Null
  ELSE t[2]

StringifyItem(item) ==
  [isNull |-> item.isNull, name |-> JSONvalue(item.name),
   quantity |-> JSONvalue(item.quantity), unitPrice |-> JSONvalue(item.unitPrice),
   price |-> JSONvalue(item.price)]
ParseItem(t) ==
  [isNull |-> t.isNull, name |-> JSONscalar(t.name),
   quantity |-> JSONscalar(t.quantity), unitPrice |-> JSONscalar(t.unitPrice),
   price |-> JSONscalar(t.price)]

StringifyProduct(p) ==
  [name |-> JSONvalue(p.name), price |-> JSONvalue(p.price),
   quantity |-> JSONvalue(p.quantity), total |-> JSONvalue(p.total)]
ParseProduct(t) ==
  [name |-> JSONscalar(t.name), price |-> JSONscalar(t.price),
   quantity |-> JSONscalar(t.quantity), total |-> JSONscalar(t.total)]

\* one ReceiptData as JSON text, and back; id and timestamp are strings
StringifyRecord(r) ==
  [id |-> <<"string", r.id>>,
   storeName |-> JSONvalue(r.storeName),
   address |-> JSONvalue(r.address),
   phone |-> JSONvalue(r.phone),
   date |-> JSONvalue(r.date),
   items |-> [k \in DOMAIN r.items |-> StringifyItem(r.items[k])],
   total |-> JSONvalue(r.total),
   tax |-> JSONvalue(r.tax),
   timestamp |-> <<"string", r.timestamp>>,
   fileName |-> JSONvalue(r.fileName),
   totalItems |-> JSONvalue(r.totalItems),
   currency |-> JSONvalue(r.currency),
   products |-> [k \in DOMAIN r.products |-> StringifyProduct(r.products[k])],
   total_spending |-> JSONvalue(r.total_spending),
   extraction_date |-> <<"string", r.extraction_date>>,
   file_name |-> JSONvalue(r.file_name)]
ParseRecord(t) ==
  [id |-> t.id[2],
   storeName |-> JSONscalar(t.storeName),
   address |-> JSONscalar(t.address),
   phone |-> JSONscalar(t.phone),
   date |-> JSONscalar(t.date),
   items |-> [k \in DOMAIN t.items |-> ParseItem(t.items[k])],
   total |-> JSONscalar(t.total),
   tax |-> JSONscalar(t.tax),
   timestamp |-> t.timestamp[2],
   fileName |-> JSONscalar(t.fileName),
   totalItems |-> JSONscalar(t.totalItems),
   currency |-> JSONscalar(t.currency),
   products |-> [k \in DOMAIN t.products |-> ParseProduct(t.products[k])],
   total_spending |-> JSONscalar(t.total_spending),
   extraction_date |-> t.extraction_date[2],
   file_name |-> JSONscalar(t.file_name)]

\* JSON.stringify(history), the text setItem is given
JSONstringify(h) == [kind |-> "json", list |-> [k \in DOMAIN h |-> StringifyRecord(h[k])]]

\* loadHistoryFromStorage: stored ? JSON.parse(stored) : [], [] when it throws
loadHistoryFromStorage(stored) ==
  IF stored.kind = "json"
  THEN [k \in DOMAIN stored.list |-> ParseRecord(stored.list[k])]
  ELSE <<>>

\* Array.isArray of what loadHistoryFromStorage returns: JSON.parse's value is
\* returned as it is
LoadsAnArray(stored) == stored.kind # "object"

\* saveHistoryToStorage: setItem either stores the text or throws (quota), and
\* the throw is swallowed
saveHistoryToStorage(stored, h, writes) ==
  IF writes THEN JSONstringify(h) ELSE stored

\* What earlier sessions left in the store: records they extracted, newest
\* first, with ids below this session's.
OldFile(i) == IF i % 2 = 1 THEN "a.jpg" ELSE "b.png"
OldList(n) == [i \in 1..n |-> ReceiptData(DocOf("{coffee}"), OldFile(i), -i, -i)]
InitialStorage == {Absent, Corrupt, JSONstringify(OldList(OldRecords))}

\* ------------------------------------------------------------------ state
VARIABLES
  isLoading, isProcessing, data, currentExtraction, error, progress, history,
  historyIsArray, \* Array.isArray(state.history)
  storage,     \* localStorage's item 'receipt-extraction-history'
  genAI,       \* the client's handle: Null, or the key it was built with
  att,         \* the calls on the client: one record per call of extractReceiptData
               \* or of testApiKey
  started,     \* how many of them have begun
  running,     \* the call whose task is executing now, 0 when none is
  nextId,      \* Date.now() and the random suffix: a value never given before
  lastInit,    \* "never", or whether the latest initialize call "ok" or "failed"
  everInit,    \* some initialize call has succeeded
  saves,       \* how many saveToHistory actions have been dispatched
  synced,      \* the latest saveHistoryToStorage call stored its text
  selectedFile, \* the page's selectedFile, as an option
  fileError,   \* the page's fileError
  country,     \* the page's country
  added,       \* the records the latest run of fulfilled actions put in history,
               \* newest first: empty again when history changes any other way
  call         \* a call of a helper of common/helpers.ts: its name, its
               \* arguments and, as an option, what it returned

slice == <<isLoading, isProcessing, data, currentExtraction, error, progress, history,
           historyIsArray>>
vars == <<isLoading, isProcessing, data, currentExtraction, error, progress, history,
          historyIsArray,
          storage, genAI, att, started, running, nextId, lastInit, everInit, saves, synced, added,
          selectedFile, fileError, country, call>>
page == <<selectedFile, fileError, country>>

NoAnswer == [kind |-> "none", text |-> <<>>, isError |-> FALSE, message |-> Undefined]
NoResult == [success |-> FALSE, data |-> None, error |-> Undefined]

\* a call that has not begun; a call that is over keeps only how it ended:
\* "fulfilled", "rejected", "thrown" (the reducer of its fulfilled action threw)
\* or "dropped" by the other caller
\* the slice, as an attempt's last action finds it and leaves it
Outcome ==
  [isLoading |-> isLoading, isProcessing |-> isProcessing, error |-> error,
   progress |-> progress, data |-> data, currentExtraction |-> currentExtraction,
   history |-> history]
NoOutcome ==
  [isLoading |-> FALSE, isProcessing |-> FALSE, error |-> Null, progress |-> 0,
   data |-> None, currentExtraction |-> None, history |-> <<>>]

\* country is the payload's country; a call whose record is kept keeps, once
\* it is over, what it read and returned, and the slice its last action found
\* and left
Idle ==
  [pc |-> "idle", via |-> "none", file |-> "", apiKey |-> "", country |-> "", reads |-> 0,
   calls |-> <<>>, vres |-> NoAnswer, eres |-> NoAnswer, result |-> NoResult,
   kept |-> FALSE, before |-> NoOutcome, outcome |-> NoOutcome]
Ended(pc) == [Idle EXCEPT !.pc = pc]
EndedAs(a, pc, found, left) ==
  IF a.kept
  THEN [a EXCEPT !.pc = pc, !.before = found, !.outcome = left]
  ELSE Ended(pc)

\* initialState, and the client as constructed
NoCall == [fn |-> "none"]

InitStore(n, stores) ==
  /\ storage \in stores
  /\ isLoading = FALSE
  /\ isProcessing = FALSE
  /\ data = None
  /\ currentExtraction = None
  /\ error = Null
  /\ progress = 0
  /\ history = loadHistoryFromStorage(storage)
  /\ historyIsArray = LoadsAnArray(storage)
  /\ genAI = Null
  /\ att = [i \in 1..n |-> Idle]
  /\ started = 0
  /\ running = 0
  /\ nextId = 1
  /\ lastInit = "never"
  /\ everInit = FALSE
  /\ saves = 0
  /\ synced = TRUE
  /\ added = <<>>
  /\ selectedFile = None
  /\ fileError = Null
  /\ country = ""

InitWith(n, stores) == InitStore(n, stores) /\ call = NoCall

Init == InitWith(MaxAttempts, InitialStorage)

\* ------------------------------------------------------------ the reducers
\* a pending reducer that only raises the flags
PendingKeepsError ==
  /\ isLoading' = TRUE
  /\ isProcessing' = TRUE
  /\ UNCHANGED <<error, progress, data, currentExtraction, history, historyIsArray, storage, synced, added>>

\* extractReceiptData.pending
Pending ==
  /\ isLoading' = TRUE
  /\ isProcessing' = TRUE
  /\ error' = Null
  /\ progress' = 0
  /\ UNCHANGED <<data, currentExtraction, history, historyIsArray, storage, synced, added>>

\* a fulfilled reducer that puts the new record in the place of the records
\* of the same file
FulfilledReducerReplaces(payload, writes) ==
  /\ isLoading' = FALSE
  /\ isProcessing' = FALSE
  /\ data' = Some(payload)
  /\ currentExtraction' = Some(payload)
  /\ error' = Null
  /\ progress' = 100
  /\ history' = NewHistory(payload, Filter(history, payload.file_name))
  /\ historyIsArray' = TRUE
  /\ storage' = saveHistoryToStorage(
                   storage, NewHistory(payload, Filter(history, payload.file_name)), writes)
  /\ synced' = writes
  /\ added' = <<payload>> \o added

\* a fulfilled reducer that puts the new record last
FulfilledReducerAppends(payload, writes) ==
  /\ isLoading' = FALSE
  /\ isProcessing' = FALSE
  /\ data' = Some(payload)
  /\ currentExtraction' = Some(payload)
  /\ error' = Null
  /\ progress' = 100
  /\ history' = SubSeq(history, 1, Min(Len(history), HistoryCap - 1)) \o <<payload>>
  /\ historyIsArray' = TRUE
  /\ storage' = saveHistoryToStorage(
                   storage, SubSeq(history, 1, Min(Len(history), HistoryCap - 1)) \o <<payload>>,
                   writes)
  /\ synced' = writes
  /\ added' = <<payload>> \o added

\* extractReceiptData.fulfilled
FulfilledReducer(payload, writes) ==
  /\ isLoading' = FALSE
  /\ isProcessing' = FALSE
  /\ data' = Some(payload)
  /\ currentExtraction' = Some(payload)
  /\ error' = Null
  /\ progress' = 100
  /\ history' = NewHistory(payload, history)
  /\ historyIsArray' = TRUE
  /\ storage' = saveHistoryToStorage(storage, NewHistory(payload, history), writes)
  /\ synced' = writes
  /\ added' = <<payload>> \o added

\* extractReceiptData.rejected
RejectedReducer(payload) ==
  /\ isLoading' = FALSE
  /\ isProcessing' = FALSE
  /\ error' = payload
  /\ progress' = 0
  /\ UNCHANGED <<data, currentExtraction, history, historyIsArray, storage, synced, added>>

\* updateProgress
updateProgress(n) ==
  /\ progress' = n
  /\ UNCHANGED <<isLoading, isProcessing, data, currentExtraction, error, history, historyIsArray,
                 storage, synced, added>>

client == <<genAI, att, started, running, nextId, lastInit, everInit>>

\* a reset that takes initialState whole, the history it loaded included
resetStateClearsHistory ==
  /\ running = 0
  /\ isLoading' = FALSE
  /\ isProcessing' = FALSE
  /\ data' = None
  /\ currentExtraction' = None
  /\ error' = Null
  /\ progress' = 0
  /\ history' = <<>>
  /\ historyIsArray' = TRUE
  /\ UNCHANGED <<storage, synced, saves, added>>
  /\ UNCHANGED client

\* Dispatches from outside the extraction calls happen between tasks.
resetState ==
  /\ running = 0
  /\ isLoading' = FALSE
  /\ isProcessing' = FALSE
  /\ data' = None
  /\ currentExtraction' = None
  /\ error' = Null
  /\ progress' = 0
  /\ UNCHANGED <<history, historyIsArray, storage, synced, saves, added>>
  /\ UNCHANGED client

clearCurrentExtraction ==
  /\ running = 0
  /\ currentExtraction' = None
  /\ error' = Null
  /\ progress' = 0
  /\ UNCHANGED <<isLoading, isProcessing, data, history, historyIsArray, storage, synced, saves, added>>
  /\ UNCHANGED client

clearError ==
  /\ running = 0
  /\ error' = Null
  /\ UNCHANGED <<isLoading, isProcessing, data, currentExtraction, progress, history, historyIsArray,
                 storage, synced, saves, added>>
  /\ UNCHANGED client

saveToHistory ==
  /\ running = 0
  /\ saves < MaxSaves
  /\ saves' = saves + 1
  /\ IF data # None /\ historyIsArray
     THEN \E writes \in BOOLEAN :
            /\ history' = NewHistory(data[1], history)
            /\ historyIsArray' = TRUE
            /\ storage' = saveHistoryToStorage(storage, NewHistory(data[1], history), writes)
            /\ synced' = writes
            /\ added' = <<>>
     ELSE UNCHANGED <<history, historyIsArray, storage, synced, added>>
  /\ UNCHANGED <<isLoading, isProcessing, data, currentExtraction, error, progress>>
  /\ UNCHANGED client

\* a clearHistory whose reducer is undone when setItem throws
clearHistoryIfWritten ==
  /\ running = 0
  /\ \E writes \in BOOLEAN :
       /\ history' = IF writes THEN <<>> ELSE history
       /\ historyIsArray' = TRUE
       /\ storage' = saveHistoryToStorage(storage, <<>>, writes)
       /\ synced' = writes
       /\ added' = <<>>
  /\ UNCHANGED <<isLoading, isProcessing, data, currentExtraction, error, progress, saves>>
  /\ UNCHANGED client

clearHistory ==
  /\ running = 0
  /\ \E writes \in BOOLEAN :
       /\ history' = <<>>
       /\ historyIsArray' = TRUE
       /\ storage' = saveHistoryToStorage(storage, <<>>, writes)
       /\ synced' = writes
       /\ added' = <<>>
  /\ UNCHANGED <<isLoading, isProcessing, data, currentExtraction, error, progress, saves>>
  /\ UNCHANGED client

FileNames == Files

\* a removeFromHistory that leaves the stored list alone
removeFromHistoryUnsaved(fileNameToRemove) ==
  /\ running = 0
  /\ IF historyIsArray
     THEN /\ history' = Filter(history, fileNameToRemove)
          /\ historyIsArray' = TRUE
          /\ added' = <<>>
          /\ UNCHANGED <<storage, synced>>
     ELSE UNCHANGED <<history, historyIsArray, storage, synced, added>>
  /\ UNCHANGED <<isLoading, isProcessing, data, currentExtraction, error, progress, saves>>
  /\ UNCHANGED client

\* state.history.filter throws when state.history is no array
removeFromHistory(fileNameToRemove) ==
  /\ running = 0
  /\ IF historyIsArray
     THEN \E writes \in BOOLEAN :
            /\ history' = Filter(history, fileNameToRemove)
            /\ historyIsArray' = TRUE
            /\ storage' = saveHistoryToStorage(storage, Filter(history, fileNameToRemove), writes)
            /\ synced' = writes
            /\ added' = <<>>
     ELSE UNCHANGED <<history, historyIsArray, storage, synced, added>>
  /\ UNCHANGED <<isLoading, isProcessing, data, currentExtraction, error, progress, saves>>
  /\ UNCHANGED client

loadFromHistory(fileName) ==
  /\ running = 0
  /\ LET historyItem == Find(history, fileName)
     IN  IF historyIsArray /\ historyItem # None
         THEN data' = historyItem /\ error' = Null
         ELSE UNCHANGED <<data, error>>
  /\ UNCHANGED <<isLoading, isProcessing, currentExtraction, progress, history, historyIsArray,
                 storage, synced, saves, added>>
  /\ UNCHANGED client

\* ------------------------------------------------- the extraction calls
\* dispatch(extractReceiptData(payload)): createAsyncThunk dispatches pending
\* and then runs the payload creator in the same task.
StartThunk(file, apiKey) ==
  /\ running = 0
  /\ started < Len(att)
  /\ started' = started + 1
  /\ running' = started + 1
  /\ att' = [att EXCEPT ![started + 1] =
               [Idle EXCEPT !.pc = "pending", !.via = "thunk", !.file = file,
                            !.apiKey = apiKey, !.country = country,
                            !.kept = att[started + 1].kept]]
  /\ Pending
  /\ UNCHANGED <<genAI, nextId, lastInit, everInit, saves>>

\* an Extract Data button that is never disabled
handleExtractDataAlwaysEnabled(file, apiKey) ==
  /\ apiKey # ""
  /\ StartThunk(file, apiKey)

\* the page's Extract Data button: disabled={isLoading}, and handleExtractData
\* returns before the dispatch when it has no API key
handleExtractData(file, apiKey) ==
  /\ ~isLoading
  /\ apiKey # ""
  /\ StartThunk(file, apiKey)

\* the thunk dispatched by any other caller of the store
dispatchExtractReceiptData(file, apiKey) ==
  StartThunk(file, apiKey)

\* an initialize that builds a handle only when the client has none
initializeOnce(apiKey) ==
  /\ running = 0
  /\ genAI' = IF apiKey = "" \/ genAI # Null THEN genAI ELSE apiKey
  /\ lastInit' = IF apiKey = "" THEN "failed" ELSE "ok"
  /\ everInit' = (everInit \/ apiKey # "")
  /\ UNCHANGED <<att, started, running, nextId, saves, storage, synced, added>>
  /\ UNCHANGED slice

\* an initialize that builds the handle before it looks at the key
initializeAssignsFirst(apiKey) ==
  /\ running = 0
  /\ genAI' = apiKey
  /\ lastInit' = IF apiKey = "" THEN "failed" ELSE "ok"
  /\ everInit' = (everInit \/ apiKey # "")
  /\ UNCHANGED <<att, started, running, nextId, saves, storage, synced, added>>
  /\ UNCHANGED slice

\* geminiService.initialize(apiKey), called on the exported client itself
initialize(apiKey) ==
  /\ running = 0
  /\ genAI' = IF apiKey = "" THEN genAI ELSE apiKey
  /\ lastInit' = IF apiKey = "" THEN "failed" ELSE "ok"
  /\ everInit' = (everInit \/ apiKey # "")
  /\ UNCHANGED <<att, started, running, nextId, saves, storage, synced, added>>
  /\ UNCHANGED slice

\* geminiService.extractReceiptData(file), called on the exported client
\* itself: the check of this.genAI, then validateReceiptImage up to its read
extractReceiptData(file) ==
  /\ running = 0
  /\ started < Len(att)
  /\ started' = started + 1
  /\ att' = [att EXCEPT ![started + 1] =
               IF genAI = Null
               THEN [Idle EXCEPT !.pc = "returned", !.via = "direct", !.file = file,
                                 !.result = Caught(ThrowError(MsgNotInitialized))]
               ELSE [Idle EXCEPT !.pc = "read1", !.via = "direct", !.file = file,
                                 !.reads = 1]]
  /\ UNCHANGED <<genAI, running, nextId, lastInit, everInit, saves, storage, synced, added>>
  /\ UNCHANGED slice

\* a key test that wants the answer to say OK
TestOutcomeNeedsOK(res) ==
  IF res.kind # "text" THEN FALSE
  ELSE IF res.text = <<>> THEN FALSE
  ELSE Includes(res.text, "OK")

\* what testApiKey returns for what its model call produced: false from the
\* catch, false for no text or the empty text, else
\* text.includes('OK') || text.length > 0
TestOutcome(res) ==
  IF res.kind # "text" THEN FALSE
  ELSE IF res.text = <<>> THEN FALSE
  ELSE Includes(res.text, "OK") \/ Len(res.text) > 0

\* the boolean testApiKey resolves with, in the call's result
Tested(b) == [success |-> b, data |-> None, error |-> Undefined]

\* geminiService.testApiKey(apiKey) up to its await: initialize, whose throw
\* on the empty key is caught, and the test call goes out on the new handle
testApiKey(apiKey) ==
  /\ running = 0
  /\ started < Len(att)
  /\ started' = started + 1
  /\ genAI' = IF apiKey = "" THEN genAI ELSE apiKey
  /\ lastInit' = IF apiKey = "" THEN "failed" ELSE "ok"
  /\ everInit' = (everInit \/ apiKey # "")
  /\ att' = [att EXCEPT ![started + 1] =
               IF apiKey = ""
               THEN [Idle EXCEPT !.pc = "tested", !.via = "test", !.result = Tested(FALSE)]
               ELSE [Idle EXCEPT !.pc = "testcall", !.via = "test", !.apiKey = apiKey,
                                 !.calls = <<"test">>]]
  /\ UNCHANGED <<running, nextId, saves, storage, synced, added>>
  /\ UNCHANGED slice

\* the test call settles, and testApiKey resolves
TestReturn(i, answers) ==
  /\ running = 0
  /\ att[i].pc = "testcall"
  /\ \E res \in answers :
       att' = [att EXCEPT ![i].pc = "tested", ![i].eres = res,
                          ![i].result = Tested(TestOutcome(res))]
  /\ UNCHANGED <<genAI, started, running, nextId, lastInit, everInit, saves,
                 storage, synced, added>>
  /\ UNCHANGED slice

\* the payload creator up to its first await: initialize, updateProgress(25),
\* and the client's call up to the read of the file.  An empty key makes
\* initialize throw, and the catch rejects.
ThunkBegin(i) ==
  /\ running = i
  /\ att[i].pc = "pending"
  /\ IF att[i].apiKey = ""
     THEN /\ lastInit' = "failed"
          /\ UNCHANGED everInit
          /\ RejectedReducer(MsgKeyRequired)
          /\ att' = [att EXCEPT ![i] = EndedAs(att[i], "rejected", Outcome, Outcome')]
          /\ running' = 0
          /\ UNCHANGED genAI
     ELSE /\ lastInit' = "ok"
          /\ everInit' = TRUE
          /\ genAI' = att[i].apiKey
          /\ updateProgress(25)
          /\ att' = [att EXCEPT ![i].pc = "read1", ![i].reads = 1]
          /\ running' = 0
  /\ UNCHANGED <<started, nextId, saves>>

\* extractReceiptData returns result to its caller, the call's record being a:
\* the thunk dispatches updateProgress(75) in the same task; another caller
\* just has the value
ReturnWith(i, a, result) ==
  IF a.via = "thunk"
  THEN /\ att' = [att EXCEPT ![i] = [a EXCEPT !.pc = "after75", !.result = result]]
       /\ running' = i
       /\ updateProgress(75)
  ELSE /\ att' = [att EXCEPT ![i] = [a EXCEPT !.pc = "returned", !.result = result]]
       /\ running' = 0
       /\ UNCHANGED <<storage, synced, added>>
       /\ UNCHANGED slice

\* a validation call whose prompt carries the payload's country
ValidationReadWithCountry(i, loads) ==
  /\ running = 0
  /\ att[i].pc = "read1"
  /\ \E ok \in loads :
       IF ok
       THEN /\ att' = [att EXCEPT ![i].pc = "call1",
                                  ![i].calls = Append(@, att[i].country)]
            /\ UNCHANGED <<running, storage, synced, added>>
            /\ UNCHANGED slice
       ELSE ReturnWith(i, att[i], Failure(Or(Invalid(MsgValidateFailed).reason, MsgInvalidImage)))
  /\ UNCHANGED <<genAI, started, nextId, lastInit, everInit, saves>>

\* the FileReader of validateReceiptImage finishes: onload, and the validation
\* call goes out; or onerror, which validateReceiptImage catches
ValidationRead(i, loads) ==
  /\ running = 0
  /\ att[i].pc = "read1"
  /\ \E ok \in loads :
       IF ok
       THEN /\ att' = [att EXCEPT ![i].pc = "call1",
                                  ![i].calls = Append(@, "validation")]
            /\ UNCHANGED <<running, storage, synced, added>>
            /\ UNCHANGED slice
       ELSE ReturnWith(i, att[i], Failure(Or(Invalid(MsgValidateFailed).reason, MsgInvalidImage)))
  /\ UNCHANGED <<genAI, started, nextId, lastInit, everInit, saves>>

\* the validation call settles
ValidationReturn(i, answers) ==
  /\ running = 0
  /\ att[i].pc = "call1"
  /\ \E res \in answers :
       LET validation == ValidationOutcome(res)
           a == [att[i] EXCEPT !.vres = res]
       IN  IF ~validation.isValid
           THEN ReturnWith(i, a, Failure(Or(validation.reason, MsgInvalidImage)))
           ELSE /\ att' = [att EXCEPT ![i] = [a EXCEPT !.pc = "read2", !.reads = @ + 1]]
                /\ UNCHANGED <<running, storage, synced, added>>
                /\ UNCHANGED slice
  /\ UNCHANGED <<genAI, started, nextId, lastInit, everInit, saves>>

\* the second read of the file finishes: the extraction call goes out, or the
\* rejection (no Error) reaches the catch of extractReceiptData
ExtractionRead(i, loads) ==
  /\ running = 0
  /\ att[i].pc = "read2"
  /\ \E ok \in loads :
       IF ok
       THEN /\ att' = [att EXCEPT ![i].pc = "call2",
                                  ![i].calls = Append(@, "extraction")]
            /\ UNCHANGED <<running, storage, synced, added>>
            /\ UNCHANGED slice
       ELSE ReturnWith(i, att[i], Caught(ThrowOther))
  /\ UNCHANGED <<genAI, started, nextId, lastInit, everInit, saves>>

\* an extraction call that never settles
ExtractionNeverReturns(i, answers) ==
  /\ running = 0
  /\ att[i].pc = "call2"
  /\ answers = {}
  /\ UNCHANGED vars

\* the extraction call settles
ExtractionReturn(i, answers) ==
  /\ running = 0
  /\ att[i].pc = "call2"
  /\ \E res \in answers :
       LET result == ExtractionOutcome(res, att[i].file, nextId, nextId)
       IN  /\ ReturnWith(i, [att[i] EXCEPT !.eres = res], result)
           /\ nextId' = IF result.success THEN nextId + 1 ELSE nextId
  /\ UNCHANGED <<genAI, started, lastInit, everInit, saves>>

\* the payload creator after updateProgress(75): it throws on a failure, and
\* the rejected action follows; else updateProgress(100)
ThunkSettle(i) ==
  /\ running = i
  /\ att[i].pc = "after75"
  /\ IF ThunkRejection(att[i].result) # Undefined
     THEN /\ RejectedReducer(ThunkRejection(att[i].result))
          /\ att' = [att EXCEPT ![i] = EndedAs(att[i], "rejected", Outcome, Outcome')]
          /\ running' = 0
     ELSE /\ updateProgress(100)
          /\ att' = [att EXCEPT ![i].pc = "after100"]
          /\ UNCHANGED running
  /\ UNCHANGED <<genAI, started, nextId, lastInit, everInit, saves>>

\* the fulfilled action, with result.data; state.history.slice throws when
\* state.history is no array, and a reducer that throws leaves the state alone
ThunkFulfilled(i, stores) ==
  /\ running = i
  /\ att[i].pc = "after100"
  /\ IF historyIsArray
     THEN /\ \E writes \in stores : FulfilledReducer(att[i].result.data[1], writes)
          /\ att' = [att EXCEPT ![i] = EndedAs(att[i], "fulfilled", Outcome, Outcome')]
     ELSE /\ att' = [att EXCEPT ![i] = Ended("thrown")]
          /\ UNCHANGED <<storage, synced, added>>
          /\ UNCHANGED slice
  /\ running' = 0
  /\ UNCHANGED <<genAI, started, nextId, lastInit, everInit, saves>>

\* the other caller drops the value it got
Returned(i) ==
  /\ running = 0
  /\ att[i].pc = "returned"
  /\ att' = [att EXCEPT ![i] = Ended("dropped")]
  /\ UNCHANGED <<genAI, started, running, nextId, lastInit, everInit, saves, storage, synced, added>>
  /\ UNCHANGED slice

\* ---------------------------------------------------------------- the page
supportedTypes == {"image/jpeg", "image/jpg", "image/png", "application/pdf"}
maxFileSize == 10 * 1024 * 1024

MsgFileType == "Please upload a JPG, PNG, or PDF file"
MsgFileSize == "File size must be less than 10MB"

\* a File: its name, its content type and its size in bytes
File(name, type, size) == [name |-> name, type |-> type, size |-> size]
PageFiles ==
  {File("a.jpg", "image/jpeg", 1024), File("b.png", "image/png", maxFileSize),
   File("c.gif", "image/gif", 1024), File("big.pdf", "application/pdf", maxFileSize + 1)}
Countries == {"", "Japan"}

\* validateFile without its size check
validateFileTypeOnly(file) ==
  IF file.type \notin supportedTypes THEN MsgFileType ELSE Null

\* validateFile: the fileError it sets, null when it returns true
validateFile(file) ==
  IF file.type \notin supportedTypes THEN MsgFileType
  ELSE IF file.size > maxFileSize THEN MsgFileSize
  ELSE Null

\* handleFileSelect, from the file input or a drop
handleFileSelect(file) ==
  /\ running = 0
  /\ fileError' = validateFile(file)
  /\ IF validateFile(file) = Null
     THEN /\ selectedFile' = Some(file)
          /\ clearCurrentExtraction
     ELSE /\ UNCHANGED selectedFile
          /\ UNCHANGED <<storage, synced, saves, added>>
          /\ UNCHANGED slice
          /\ UNCHANGED client
  /\ UNCHANGED <<country, call>>

\* handleRemoveFile: its button is part of the selected file's card and is
\* disabled while isLoading
handleRemoveFile ==
  /\ selectedFile # None
  /\ ~isLoading
  /\ selectedFile' = None
  /\ fileError' = Null
  /\ clearCurrentExtraction
  /\ UNCHANGED <<country, call>>

\* the country select's onChange
setCountry(c) ==
  /\ running = 0
  /\ country' = c
  /\ UNCHANGED <<selectedFile, fileError, storage, synced, saves, added, call>>
  /\ UNCHANGED slice
  /\ UNCHANGED client

\* !country || country.trim() === ""
BlankCountry(c) == c \in {"", " "}

\* a click on the Extract Data button, which is part of the selected file's
\* card: handleExtractData with the key the environment or the prompt gives
ExtractDataButton(apiKey) ==
  /\ running = 0
  /\ selectedFile # None
  /\ IF apiKey = "" \/ BlankCountry(country)
     THEN ~isLoading /\ UNCHANGED vars
     ELSE handleExtractData(selectedFile[1].name, apiKey) /\ UNCHANGED <<page, call>>

\* handleDelete of the details dialog, opened on a record of the history
handleDelete(fileName) ==
  /\ \E k \in DOMAIN history : history[k].fileName = fileName
  /\ removeFromHistory(fileName)
  /\ UNCHANGED <<page, call>>

\* ------------------------------------------------------------- the inputs
ValidationTexts ==
  {<<>>, <<" ">>, <<"VALID_RECEIPT">>, <<"NOT_RECEIPT">>, <<"UNCLEAR_IMAGE">>,
   <<"prose">>, <<" ", "VALID_RECEIPT", "\n">>, <<"NOT_RECEIPT", "VALID_RECEIPT">>,
   <<"prose", "NOT_RECEIPT">>, <<"NOT_RECEIPT", "UNCLEAR_IMAGE">>,
   <<"UNCLEAR_IMAGE", "prose">>}
ValidationAnswers == {TextResult(t) : t \in ValidationTexts} \cup {NoTextResult} \cup Thrown

Fenced(d) == <<"<fence>", "json", "\n", d, "\n", "<fence>">>
ExtractionTexts ==
  {<<d>> : d \in DocNames} \cup
  {<<>>, <<"prose">>, <<"{coffee}", "prose">>, Fenced("{coffee}"),
   <<" ", "<fence>", "\n", "{full}", "\n", "<fence>", "\n">>}
ExtractionAnswers == {TextResult(t) : t \in ExtractionTexts} \cup {NoTextResult} \cup Thrown

\* The answers the store's specifications draw from: at least one per message
\* the client can fail with after its calls, and the well-formed documents.
StoreValidationAnswers ==
  {TextResult(<<"VALID_RECEIPT">>), TextResult(<<"NOT_RECEIPT">>), ThrowError("Network error")}
StoreExtractionAnswers ==
  {TextResult(<<d>>) : d \in DocNames \ {"{full}"}} \cup {ThrowError("")}

\* The store: the reducers, and the thunk from its dispatch to its settling.
Next ==
  /\ UNCHANGED <<page, call>>
  /\ \/ resetState
     \/ clearCurrentExtraction
     \/ clearError
     \/ saveToHistory
     \/ clearHistory
     \/ \E f \in FileNames : removeFromHistory(f)
     \/ \E f \in FileNames : loadFromHistory(f)
     \/ \E f \in Files, k \in ApiKeys : handleExtractData(f, k)
     \/ \E f \in Files, k \in ApiKeys : dispatchExtractReceiptData(f, k)
     \/ \E i \in DOMAIN att : ThunkBegin(i)
     \/ \E i \in DOMAIN att : ValidationRead(i, BOOLEAN)
     \/ \E i \in DOMAIN att : ValidationReturn(i, StoreValidationAnswers)
     \/ \E i \in DOMAIN att : ExtractionRead(i, BOOLEAN)
     \/ \E i \in DOMAIN att : ExtractionReturn(i, StoreExtractionAnswers)
     \/ \E i \in DOMAIN att : ThunkSettle(i)
     \/ \E i \in DOMAIN att : ThunkFulfilled(i, BOOLEAN)

Spec == Init /\ [][Next]_vars

\* The client on its own: calls on the exported geminiService.
NextClient ==
  /\ UNCHANGED <<page, call>>
  /\ \/ \E k \in ApiKeys : initialize(k)
     \/ \E f \in Files : extractReceiptData(f)
     \/ \E i \in DOMAIN att : ValidationRead(i, BOOLEAN)
     \/ \E i \in DOMAIN att : ValidationReturn(i, ValidationAnswers)
     \/ \E i \in DOMAIN att : ExtractionRead(i, BOOLEAN)
     \/ \E i \in DOMAIN att : ExtractionReturn(i, ExtractionAnswers)
     \/ \E i \in DOMAIN att : Returned(i)

SpecClient == InitWith(ClientCalls, {Absent}) /\ [][NextClient]_vars

\* The page through more extractions than the history holds: one file, every
\* read and call succeeding, and the history's other commands between them.
NextCap ==
  /\ UNCHANGED <<page, call>>
  /\ \/ saveToHistory
     \/ clearHistory
     \/ removeFromHistory("a.jpg")
     \/ handleExtractData("a.jpg", "key1")
     \/ \E i \in DOMAIN att : ThunkBegin(i)
     \/ \E i \in DOMAIN att : ValidationRead(i, {TRUE})
     \/ \E i \in DOMAIN att : ValidationReturn(i, {TextResult(<<"VALID_RECEIPT">>)})
     \/ \E i \in DOMAIN att : ExtractionRead(i, {TRUE})
     \/ \E i \in DOMAIN att : ExtractionReturn(i, {TextResult(<<"{coffee}">>)})
     \/ \E i \in DOMAIN att : ThunkSettle(i)
     \/ \E i \in DOMAIN att : ThunkFulfilled(i, BOOLEAN)

SpecCap ==
  InitWith(CapAttempts, {Absent, JSONstringify(OldList(HistoryCap))}) /\ [][NextCap]_vars

\* The page and the details dialog: what the user can do, and the thunk.
PageExtractionAnswers ==
  {TextResult(<<"{full}">>), TextResult(<<"{empty}">>), ThrowError("Network error")}
NextPage ==
  \/ \E f \in PageFiles : handleFileSelect(f)
  \/ handleRemoveFile
  \/ \E c \in Countries : setCountry(c)
  \/ \E k \in ApiKeys : ExtractDataButton(k)
  \/ \E f \in FileNames : handleDelete(f)
  \/ /\ UNCHANGED <<page, call>>
     /\ \/ \E i \in DOMAIN att : ThunkBegin(i)
        \/ \E i \in DOMAIN att : ValidationRead(i, BOOLEAN)
        \/ \E i \in DOMAIN att : ValidationReturn(i, StoreValidationAnswers)
        \/ \E i \in DOMAIN att : ExtractionRead(i, {TRUE})
        \/ \E i \in DOMAIN att : ExtractionReturn(i, PageExtractionAnswers)
        \/ \E i \in DOMAIN att : ThunkSettle(i)
        \/ \E i \in DOMAIN att : ThunkFulfilled(i, BOOLEAN)

SpecPage == InitWith(MaxAttempts, {Absent, JSONstringify(OldList(OldRecords))}) /\ [][NextPage]_vars

\* The client's handle under several keys: initialize called on the client,
\* and the thunk dispatched with any key, the empty one included.
MoreKeys == ApiKeys \cup {"key2"}
NextKeys ==
  /\ UNCHANGED <<page, call>>
  /\ \/ \E k \in MoreKeys : initialize(k)
     \/ \E k \in MoreKeys : dispatchExtractReceiptData("a.jpg", k)
     \/ \E i \in DOMAIN att : ThunkBegin(i)
     \/ \E i \in DOMAIN att : ValidationRead(i, {TRUE})
     \/ \E i \in DOMAIN att : ValidationReturn(i, StoreValidationAnswers)
     \/ \E i \in DOMAIN att : ExtractionRead(i, {TRUE})
     \/ \E i \in DOMAIN att : ExtractionReturn(i, {TextResult(<<"{coffee}">>)})
     \/ \E i \in DOMAIN att : ThunkSettle(i)
     \/ \E i \in DOMAIN att : ThunkFulfilled(i, BOOLEAN)

SpecKeys == InitWith(MaxAttempts, {Absent}) /\ [][NextKeys]_vars

\* The key test: testApiKey and initialize called on the client.
TestAnswers ==
  {TextResult(t) : t \in {<<"OK">>, <<" ">>, <<"prose">>, <<"prose", "OK">>, <<>>}}
    \cup {NoTextResult} \cup Thrown
NextTest ==
  /\ UNCHANGED <<page, call>>
  /\ \/ \E k \in MoreKeys : initialize(k)
     \/ \E k \in MoreKeys : testApiKey(k)
     \/ \E i \in DOMAIN att : TestReturn(i, TestAnswers)

SpecTest == InitWith(ClientCalls, {Absent}) /\ [][NextTest]_vars

\* The extraction answer in and out of code fences: the document d alone, and
\* d between a json fence or a bare fence and the closing fence, with and
\* without the line breaks and the white space that may surround them.
Wrappings(d) ==
  {<<"<fence>", "json", "\n", d, "\n", "<fence>">>,
   <<"<fence>", "json", d, "<fence>">>,
   <<"<fence>", "json", " ", d, " ", "<fence>">>,
   <<"<fence>", "json", "\n", "\n", d, "\n", "\n", "<fence>">>,
   <<" ", "<fence>", "json", "\n", d, "\n", "<fence>", "\n">>,
   <<"<fence>", "\n", d, "\n", "<fence>">>,
   <<"<fence>", d, "<fence>">>,
   <<"\n", "<fence>", "\n", d, "\n", "<fence>", " ">>}
FenceAnswers ==
  {TextResult(<<d>>) : d \in DocNames}
    \cup {TextResult(t) : t \in UNION {Wrappings(d) : d \in DocNames}}
NextFence ==
  /\ UNCHANGED <<page, call>>
  /\ \/ initialize("key1")
     \/ \E f \in Files : extractReceiptData(f)
     \/ \E i \in DOMAIN att : ValidationRead(i, {TRUE})
     \/ \E i \in DOMAIN att : ValidationReturn(i, {TextResult(<<"VALID_RECEIPT">>)})
     \/ \E i \in DOMAIN att : ExtractionRead(i, {TRUE})
     \/ \E i \in DOMAIN att : ExtractionReturn(i, FenceAnswers)
     \/ \E i \in DOMAIN att : Returned(i)

SpecFence == InitWith(ClientCalls, {Absent}) /\ [][NextFence]_vars

\* Start-up over whatever the storage holds, and the history's commands after it.
NextStart ==
  /\ UNCHANGED <<page, call>>
  /\ \/ saveToHistory
     \/ clearHistory
     \/ \E f \in FileNames : removeFromHistory(f)
     \/ \E f \in FileNames : loadFromHistory(f)
     \/ \E f \in Files : handleExtractData(f, "key1")
     \/ \E i \in DOMAIN att : ThunkBegin(i)
     \/ \E i \in DOMAIN att : ValidationRead(i, {TRUE})
     \/ \E i \in DOMAIN att : ValidationReturn(i, {TextResult(<<"VALID_RECEIPT">>)})
     \/ \E i \in DOMAIN att : ExtractionRead(i, {TRUE})
     \/ \E i \in DOMAIN att : ExtractionReturn(i, {TextResult(<<"{coffee}">>)})
     \/ \E i \in DOMAIN att : ThunkSettle(i)
     \/ \E i \in DOMAIN att : ThunkFulfilled(i, BOOLEAN)

SpecStart ==
  InitWith(MaxAttempts, InitialStorage \cup {NotAnArray}) /\ [][NextStart]_vars

\* ---- the page, with every read and every model call settling in the end:
\* a FileReader fires onload or onerror, a generateContent promise settles,
\* and the event loop runs the continuation of a settled await
AttemptSteps ==
  /\ UNCHANGED <<page, call>>
  /\ \/ \E i \in DOMAIN att : ThunkBegin(i)
     \/ \E i \in DOMAIN att : ValidationRead(i, BOOLEAN)
     \/ \E i \in DOMAIN att : ValidationReturn(i, StoreValidationAnswers)
     \/ \E i \in DOMAIN att : ExtractionRead(i, {TRUE})
     \/ \E i \in DOMAIN att : ExtractionReturn(i, PageExtractionAnswers)
     \/ \E i \in DOMAIN att : ThunkSettle(i)
     \/ \E i \in DOMAIN att : ThunkFulfilled(i, BOOLEAN)
NextLive ==
  \/ \E f \in {g \in PageFiles : g.name \in Files} : handleFileSelect(f)
  \/ handleRemoveFile
  \/ \E c \in Countries : setCountry(c)
  \/ \E k \in ApiKeys : ExtractDataButton(k)
  \/ AttemptSteps
SpecLive == InitWith(MaxAttempts, {Absent}) /\ [][NextLive]_vars /\ WF_vars(AttemptSteps)

\* ---- the page with two countries to choose from, every call's record kept
CountryHints == {"Japan", "Indonesia"}
InitCountry ==
  /\ storage = Absent
  /\ isLoading = FALSE
  /\ isProcessing = FALSE
  /\ data = None
  /\ currentExtraction = None
  /\ error = Null
  /\ progress = 0
  /\ history = loadHistoryFromStorage(storage)
  /\ historyIsArray = LoadsAnArray(storage)
  /\ genAI = Null
  /\ att = [i \in 1..MaxAttempts |-> [Idle EXCEPT !.kept = TRUE]]
  /\ started = 0
  /\ running = 0
  /\ nextId = 1
  /\ lastInit = "never"
  /\ everInit = FALSE
  /\ saves = 0
  /\ synced = TRUE
  /\ added = <<>>
  /\ selectedFile = None
  /\ fileError = Null
  /\ country = ""
  /\ call = NoCall
NextCountry ==
  \/ \E f \in {g \in PageFiles : g.name \in Files} : handleFileSelect(f)
  \/ \E c \in CountryHints : setCountry(c)
  \/ \E k \in ApiKeys : ExtractDataButton(k)
  \/ /\ UNCHANGED <<page, call>>
     /\ \/ \E i \in DOMAIN att : ThunkBegin(i)
        \/ \E i \in DOMAIN att : ValidationRead(i, BOOLEAN)
        \/ \E i \in DOMAIN att : ValidationReturn(i, StoreValidationAnswers)
        \/ \E i \in DOMAIN att : ExtractionRead(i, BOOLEAN)
        \/ \E i \in DOMAIN att : ExtractionReturn(i, PageExtractionAnswers)
        \/ \E i \in DOMAIN att : ThunkSettle(i)
        \/ \E i \in DOMAIN att : ThunkFulfilled(i, {TRUE})
SpecCountry == InitCountry /\ [][NextCountry]_vars

\* ------------------------------------------------------ common/helpers.ts
\* A string of the helpers is the sequence of its characters, a number is
\* NaN or a sign and a magnitude in thousandths, an optional argument is an
\* option.
UpperCaseLetters == <<"A", "B", "C", "D", "E", "F", "G", "H", "I", "J", "K", "L", "M", "N", "O", "P", "Q", "R", "S", "T", "U", "V", "W", "X", "Y", "Z">>
LowerCaseLetters == <<"a", "b", "c", "d", "e", "f", "g", "h", "i", "j", "k", "l", "m", "n", "o", "p", "q", "r", "s", "t", "u", "v", "w", "x", "y", "z">>
Digits == <<"0", "1", "2", "3", "4", "5", "6", "7", "8", "9">>
IndexIn(letters, c) == CHOOSE i \in DOMAIN letters : letters[i] = c
IsLetter(c) ==
  \/ \E i \in DOMAIN UpperCaseLetters : UpperCaseLetters[i] = c
  \/ \E i \in DOMAIN LowerCaseLetters : LowerCaseLetters[i] = c
IsDigit(c) == \E i \in DOMAIN Digits : Digits[i] = c
DigitValue(c) == IndexIn(Digits, c) - 1

\* String.prototype.toUpperCase and toLowerCase
toUpperCase(s) ==
  [i \in DOMAIN s |->
     IF \E k \in DOMAIN LowerCaseLetters : LowerCaseLetters[k] = s[i]
     THEN UpperCaseLetters[IndexIn(LowerCaseLetters, s[i])]
     ELSE s[i]]
toLowerCase(s) ==
  [i \in DOMAIN s |->
     IF \E k \in DOMAIN UpperCaseLetters : UpperCaseLetters[k] = s[i]
     THEN LowerCaseLetters[IndexIn(UpperCaseLetters, s[i])]
     ELSE s[i]]

NaN == [nan |-> TRUE, negative |-> FALSE, thousandths |-> 0]
Number(neg, n) == [nan |-> FALSE, negative |-> neg, thousandths |-> n]
isNaN(n) == n.nan

\* the longest prefix of s made of digits
RECURSIVE DigitPrefix(_)
DigitPrefix(s) ==
  IF s # <<>> /\ IsDigit(Head(s)) THEN <<Head(s)>> \o DigitPrefix(Tail(s)) ELSE <<>>
RECURSIVE DecimalValue(_)
DecimalValue(ds) ==
  IF ds = <<>> THEN 0
  ELSE 10 * DecimalValue(SubSeq(ds, 1, Len(ds) - 1)) + DigitValue(ds[Len(ds)])
\* the first three digits after the point, in thousandths
FractionValue(ds) ==
  DecimalValue(SubSeq(ds \o <<"0", "0", "0">>, 1, 3))

\* parseFloat, for strings without an exponent: leading white space, a sign,
\* digits, a point and digits; what follows is ignored
parseFloat(s) ==
  LET t == TrimLeft(s)
      signed == t # <<>> /\ Head(t) \in {"-", "+"}
      u == IF signed THEN Tail(t) ELSE t
      whole == DigitPrefix(u)
      v == SubSeq(u, Len(whole) + 1, Len(u))
      fraction == IF v # <<>> /\ Head(v) = "." THEN DigitPrefix(Tail(v)) ELSE <<>>
  IN IF whole = <<>> /\ fraction = <<>>
     THEN NaN
     ELSE Number(signed /\ Head(t) = "-",
                 1000 * DecimalValue(whole) + FractionValue(fraction))

\* an amount: typeof amount and its value
StringAmount(s) == [type |-> "string", value |-> s]
NumberAmount(n) == [type |-> "number", value |-> n]

\* CURRENCY_LOCALE_MAP, as the set of its entries
CURRENCY_LOCALE_MAP ==
  { <<<<"U", "S", "D">>, "en-US">>,
    <<<<"E", "U", "R">>, "de-DE">>,
    <<<<"G", "B", "P">>, "en-GB">>,
    <<<<"J", "P", "Y">>, "ja-JP">>,
    <<<<"C", "A", "D">>, "en-CA">>,
    <<<<"A", "U", "D">>, "en-AU">>,
    <<<<"C", "H", "F">>, "de-CH">>,
    <<<<"C", "N", "Y">>, "zh-CN">>,
    <<<<"I", "N", "R">>, "en-IN">>,
    <<<<"K", "R", "W">>, "ko-KR">>,
    <<<<"S", "G", "D">>, "en-SG">>,
    <<<<"H", "K", "D">>, "en-HK">>,
    <<<<"M", "X", "N">>, "es-MX">>,
    <<<<"B", "R", "L">>, "pt-BR">>,
    <<<<"R", "U", "B">>, "ru-RU">>,
    <<<<"S", "E", "K">>, "sv-SE">>,
    <<<<"N", "O", "K">>, "nb-NO">>,
    <<<<"D", "K", "K">>, "da-DK">>,
    <<<<"P", "L", "N">>, "pl-PL">>,
    <<<<"C", "Z", "K">>, "cs-CZ">>,
    <<<<"H", "U", "F">>, "hu-HU">>,
    <<<<"R", "O", "N">>, "ro-RO">>,
    <<<<"B", "G", "N">>, "bg-BG">>,
    <<<<"H", "R", "K">>, "hr-HR">>,
    <<<<"T", "R", "Y">>, "tr-TR">>,
    <<<<"I", "L", "S">>, "he-IL">>,
    <<<<"A", "E", "D">>, "ar-AE">>,
    <<<<"S", "A", "R">>, "ar-SA">>,
    <<<<"T", "H", "B">>, "th-TH">>,
    <<<<"V", "N", "D">>, "vi-VN">>,
    <<<<"I", "D", "R">>, "id-ID">>,
    <<<<"M", "Y", "R">>, "ms-MY">>,
    <<<<"P", "H", "P">>, "en-PH">>,
    <<<<"T", "W", "D">>, "zh-TW">>,
    <<<<"N", "Z", "D">>, "en-NZ">>,
    <<<<"Z", "A", "R">>, "en-ZA">>,
    <<<<"E", "G", "P">>, "ar-EG">>,
    <<<<"N", "G", "N">>, "en-NG">>,
    <<<<"K", "E", "S">>, "sw-KE">>,
    <<<<"G", "H", "S">>, "en-GH">>,
    <<<<"M", "A", "D">>, "ar-MA">>,
    <<<<"T", "N", "D">>, "ar-TN">>,
    <<<<"J", "O", "D">>, "ar-JO">>,
    <<<<"L", "B", "P">>, "ar-LB">>,
    <<<<"Q", "A", "R">>, "ar-QA">>,
    <<<<"K", "W", "D">>, "ar-KW">>,
    <<<<"B", "H", "D">>, "ar-BH">>,
    <<<<"O", "M", "R">>, "ar-OM">> }
\* CURRENCY_LOCALE_MAP[key]
LocaleOf(key) ==
  IF \E e \in CURRENCY_LOCALE_MAP : e[1] = key
  THEN (CHOOSE e \in CURRENCY_LOCALE_MAP : e[1] = key)[2]
  ELSE Undefined

\* what a call returns: a formatted amount, told by its locale, its currency,
\* its sign and its cents, the text "N/A", or a RangeError thrown
NotAvailable == [kind |-> "N/A", locale |-> "", currency |-> <<>>, negative |-> FALSE, cents |-> 0]
RangeError == [kind |-> "RangeError", locale |-> "", currency |-> <<>>, negative |-> FALSE, cents |-> 0]
USD == <<"U", "S", "D">>

\* a currency code the formatter accepts: three letters
IsWellFormedCurrencyCode(code) ==
  Len(code) = 3 /\ \A i \in DOMAIN code : IsLetter(code[i])

\* new Intl.NumberFormat(locale, {style: 'currency', currency, 2 digits}).format(n):
\* the constructor throws a RangeError for a code that is not well formed;
\* the amount is rounded to cents, halves away from zero
NumberFormat(locale, currency, n) ==
  IF ~IsWellFormedCurrencyCode(currency)
  THEN RangeError
  ELSE [kind |-> "formatted", locale |-> locale, currency |-> toUpperCase(currency),
        negative |-> n.negative, cents |-> (n.thousandths + 5) \div 10]

\* formatCurrency with no try and catch
formatCurrencyUncaught(amount, currencyCode) ==
  LET code == IF currencyCode = None THEN USD ELSE currencyCode[1]
      numAmount == IF amount.type = "string" THEN parseFloat(amount.value) ELSE amount.value
      locale == Or(LocaleOf(toUpperCase(code)), "en-US")
  IN IF isNaN(numAmount)
     THEN NotAvailable
     ELSE NumberFormat(locale, toUpperCase(code), numAmount)

\* formatCurrency(amount, currencyCode = 'USD')
formatCurrency(amount, currencyCode) ==
  LET code == IF currencyCode = None THEN USD ELSE currencyCode[1]
      numAmount == IF amount.type = "string" THEN parseFloat(amount.value) ELSE amount.value
      locale == Or(LocaleOf(toUpperCase(code)), "en-US")
      tried == NumberFormat(locale, toUpperCase(code), numAmount)
  IN IF isNaN(numAmount)
     THEN NotAvailable
     ELSE IF tried # RangeError
          THEN tried
          ELSE NumberFormat("en-US", USD, numAmount)

\* the patterns of detectCurrencyFromLocation, in their order; <s> is \s
patterns ==
  << [pattern |-> {<<"u", "s", "a">>, <<"u", "n", "i", "t", "e", "d", " ", "s", "t", "a", "t", "e", "s">>, <<"a", "m", "e", "r", "i", "c", "a">>, <<"u", "s", "<s>">>, <<"u", ".", "s", ".">>, <<"c", "a", "n", "a", "d", "a">>, <<"c", "a", "<s>">>},
      currency |-> "USD"],
     [pattern |-> {<<"c", "a", "n", "a", "d", "a">>, <<"c", "a", "n", "a", "d", "i", "a", "n">>, <<"c", "a", "<s>">>},
      currency |-> "CAD"],
     [pattern |-> {<<"g", "e", "r", "m", "a", "n", "y">>, <<"d", "e", "u", "t", "s", "c", "h", "l", "a", "n", "d">>, <<"d", "e", "<s>">>, <<"b", "e", "r", "l", "i", "n">>, <<"m", "u", "n", "i", "c", "h">>, <<"h", "a", "m", "b", "u", "r", "g">>},
      currency |-> "EUR"],
     [pattern |-> {<<"f", "r", "a", "n", "c", "e">>, <<"f", "r", "e", "n", "c", "h">>, <<"f", "r", "<s>">>, <<"p", "a", "r", "i", "s">>, <<"l", "y", "o", "n">>, <<"m", "a", "r", "s", "e", "i", "l", "l", "e">>},
      currency |-> "EUR"],
     [pattern |-> {<<"i", "t", "a", "l", "y">>, <<"i", "t", "a", "l", "i", "a", "n">>, <<"i", "t", "<s>">>, <<"r", "o", "m", "e">>, <<"m", "i", "l", "a", "n">>, <<"n", "a", "p", "o", "l", "i">>},
      currency |-> "EUR"],
     [pattern |-> {<<"s", "p", "a", "i", "n">>, <<"s", "p", "a", "n", "i", "s", "h">>, <<"e", "s", "<s>">>, <<"m", "a", "d", "r", "i", "d">>, <<"b", "a", "r", "c", "e", "l", "o", "n", "a">>, <<"v", "a", "l", "e", "n", "c", "i", "a">>},
      currency |-> "EUR"],
     [pattern |-> {<<"n", "e", "t", "h", "e", "r", "l", "a", "n", "d", "s">>, <<"h", "o", "l", "l", "a", "n", "d">>, <<"n", "l", "<s>">>, <<"a", "m", "s", "t", "e", "r", "d", "a", "m">>},
      currency |-> "EUR"],
     [pattern |-> {<<"u", "k">>, <<"u", "n", "i", "t", "e", "d", " ", "k", "i", "n", "g", "d", "o", "m">>, <<"b", "r", "i", "t", "a", "i", "n">>, <<"g", "b", "<s>">>, <<"l", "o", "n", "d", "o", "n">>, <<"m", "a", "n", "c", "h", "e", "s", "t", "e", "r">>},
      currency |-> "GBP"],
     [pattern |-> {<<"s", "w", "i", "t", "z", "e", "r", "l", "a", "n", "d">>, <<"s", "w", "i", "s", "s">>, <<"c", "h", "<s>">>, <<"z", "u", "r", "i", "c", "h">>, <<"g", "e", "n", "e", "v", "a">>},
      currency |-> "CHF"],
     [pattern |-> {<<"j", "a", "p", "a", "n">>, <<"j", "a", "p", "a", "n", "e", "s", "e">>, <<"j", "p", "<s>">>, <<"t", "o", "k", "y", "o">>, <<"o", "s", "a", "k", "a">>, <<"k", "y", "o", "t", "o">>},
      currency |-> "JPY"],
     [pattern |-> {<<"c", "h", "i", "n", "a">>, <<"c", "h", "i", "n", "e", "s", "e">>, <<"c", "n", "<s>">>, <<"b", "e", "i", "j", "i", "n", "g">>, <<"s", "h", "a", "n", "g", "h", "a", "i">>, <<"g", "u", "a", "n", "g", "z", "h", "o", "u">>},
      currency |-> "CNY"],
     [pattern |-> {<<"i", "n", "d", "i", "a">>, <<"i", "n", "d", "i", "a", "n">>, <<"i", "n", "<s>">>, <<"m", "u", "m", "b", "a", "i">>, <<"d", "e", "l", "h", "i">>, <<"b", "a", "n", "g", "a", "l", "o", "r", "e">>},
      currency |-> "INR"],
     [pattern |-> {<<"k", "o", "r", "e", "a">>, <<"k", "o", "r", "e", "a", "n">>, <<"k", "r", "<s>">>, <<"s", "e", "o", "u", "l">>, <<"b", "u", "s", "a", "n">>},
      currency |-> "KRW"],
     [pattern |-> {<<"s", "i", "n", "g", "a", "p", "o", "r", "e">>, <<"s", "g", "<s>">>},
      currency |-> "SGD"],
     [pattern |-> {<<"h", "o", "n", "g", " ", "k", "o", "n", "g">>, <<"h", "k", "<s>">>},
      currency |-> "HKD"],
     [pattern |-> {<<"t", "h", "a", "i", "l", "a", "n", "d">>, <<"t", "h", "a", "i">>, <<"t", "h", "<s>">>, <<"b", "a", "n", "g", "k", "o", "k">>},
      currency |-> "THB"],
     [pattern |-> {<<"v", "i", "e", "t", "n", "a", "m">>, <<"v", "i", "e", "t", "n", "a", "m", "e", "s", "e">>, <<"v", "n", "<s>">>, <<"h", "a", "n", "o", "i">>, <<"h", "o", " ", "c", "h", "i", " ", "m", "i", "n", "h">>},
      currency |-> "VND"],
     [pattern |-> {<<"i", "n", "d", "o", "n", "e", "s", "i", "a">>, <<"i", "n", "d", "o", "n", "e", "s", "i", "a", "n">>, <<"i", "d", "<s>">>, <<"j", "a", "k", "a", "r", "t", "a">>},
      currency |-> "IDR"],
     [pattern |-> {<<"m", "a", "l", "a", "y", "s", "i", "a">>, <<"m", "a", "l", "a", "y", "s", "i", "a", "n">>, <<"m", "y", "<s>">>, <<"k", "u", "a", "l", "a", " ", "l", "u", "m", "p", "u", "r">>},
      currency |-> "MYR"],
     [pattern |-> {<<"p", "h", "i", "l", "i", "p", "p", "i", "n", "e", "s">>, <<"f", "i", "l", "i", "p", "i", "n", "o">>, <<"p", "h", "<s>">>, <<"m", "a", "n", "i", "l", "a">>},
      currency |-> "PHP"],
     [pattern |-> {<<"a", "u", "s", "t", "r", "a", "l", "i", "a">>, <<"a", "u", "s", "t", "r", "a", "l", "i", "a", "n">>, <<"a", "u", "<s>">>, <<"s", "y", "d", "n", "e", "y">>, <<"m", "e", "l", "b", "o", "u", "r", "n", "e">>},
      currency |-> "AUD"],
     [pattern |-> {<<"n", "e", "w", " ", "z", "e", "a", "l", "a", "n", "d">>, <<"n", "z", "<s>">>, <<"a", "u", "c", "k", "l", "a", "n", "d">>},
      currency |-> "NZD"],
     [pattern |-> {<<"u", "a", "e">>, <<"e", "m", "i", "r", "a", "t", "e", "s">>, <<"d", "u", "b", "a", "i">>, <<"a", "b", "u", " ", "d", "h", "a", "b", "i">>},
      currency |-> "AED"],
     [pattern |-> {<<"s", "a", "u", "d", "i">>, <<"a", "r", "a", "b", "i", "a">>, <<"r", "i", "y", "a", "d", "h">>, <<"j", "e", "d", "d", "a", "h">>},
      currency |-> "SAR"],
     [pattern |-> {<<"i", "s", "r", "a", "e", "l">>, <<"i", "s", "r", "a", "e", "l", "i">>, <<"i", "l", "<s>">>, <<"t", "e", "l", " ", "a", "v", "i", "v">>, <<"j", "e", "r", "u", "s", "a", "l", "e", "m">>},
      currency |-> "ILS"],
     [pattern |-> {<<"s", "o", "u", "t", "h", " ", "a", "f", "r", "i", "c", "a">>, <<"z", "a", "<s>">>, <<"j", "o", "h", "a", "n", "n", "e", "s", "b", "u", "r", "g">>, <<"c", "a", "p", "e", " ", "t", "o", "w", "n">>},
      currency |-> "ZAR"],
     [pattern |-> {<<"e", "g", "y", "p", "t">>, <<"e", "g", "y", "p", "t", "i", "a", "n">>, <<"e", "g", "<s>">>, <<"c", "a", "i", "r", "o">>},
      currency |-> "EGP"],
     [pattern |-> {<<"m", "e", "x", "i", "c", "o">>, <<"m", "e", "x", "i", "c", "a", "n">>, <<"m", "x", "<s>">>, <<"m", "e", "x", "i", "c", "o", " ", "c", "i", "t", "y">>},
      currency |-> "MXN"],
     [pattern |-> {<<"b", "r", "a", "z", "i", "l">>, <<"b", "r", "a", "z", "i", "l", "i", "a", "n">>, <<"b", "r", "<s>">>, <<"s", "a", "o", " ", "p", "a", "u", "l", "o">>, <<"r", "i", "o">>},
      currency |-> "BRL"] >>

\* one character of a pattern against one of the text, with the flag i
CharMatches(a, c) ==
  IF a = "<s>" THEN c \in Whitespace ELSE toLowerCase(<<a>>) = toLowerCase(<<c>>)
MatchesAt(alternative, text, p) ==
  /\ p + Len(alternative) - 1 <= Len(text)
  /\ \A j \in DOMAIN alternative : CharMatches(alternative[j], text[p + j - 1])
\* pattern.test(text)
Test(pattern, text) ==
  \E alternative \in pattern : \E p \in DOMAIN text : MatchesAt(alternative, text, p)

\* !hint, for an optional string
Blank(hint) == hint = None \/ hint[1] = <<>>
\* hint?.toLowerCase() || ''
LowerOrEmpty(hint) == IF hint = None THEN <<>> ELSE toLowerCase(hint[1])

RECURSIVE FirstMatch(_, _)
FirstMatch(k, searchText) ==
  IF k > Len(patterns) THEN "USD"
  ELSE IF Test(patterns[k].pattern, searchText) THEN patterns[k].currency
  ELSE FirstMatch(k + 1, searchText)

\* the loop that keeps the latest match
RECURSIVE LastMatch(_, _)
LastMatch(k, searchText) ==
  IF k = 0 THEN "USD"
  ELSE IF Test(patterns[k].pattern, searchText) THEN patterns[k].currency
  ELSE LastMatch(k - 1, searchText)
detectCurrencyFromLocationLast(address, language) ==
  IF Blank(address) /\ Blank(language)
  THEN "USD"
  ELSE LastMatch(Len(patterns), LowerOrEmpty(address) \o <<" ">> \o LowerOrEmpty(language))

\* detectCurrencyFromLocation(address?, language?)
detectCurrencyFromLocation(address, language) ==
  IF Blank(address) /\ Blank(language)
  THEN "USD"
  ELSE FirstMatch(1, LowerOrEmpty(address) \o <<" ">> \o LowerOrEmpty(language))

\* ---- the helpers' calls
MaxAmountLen == 4
AmountChars == {"1", "7", ".", "-", " ", "a"}
RECURSIVE StringsUpTo(_, _)
StringsUpTo(chars, n) ==
  IF n = 0 THEN {<<>>}
  ELSE LET shorter == StringsUpTo(chars, n - 1)
       IN shorter \cup {<<c>> \o t : c \in chars, t \in {u \in shorter : Len(u) = n - 1}}
Amounts ==
  {StringAmount(t) : t \in StringsUpTo(AmountChars, MaxAmountLen)}
    \cup {NumberAmount(n) : n \in {NaN, Number(FALSE, 0), Number(FALSE, 1234567),
                                   Number(TRUE, 2006)}}
CurrencyCodes ==
  {None, Some(USD), Some(<<"j", "p", "y">>), Some(<<"E", "u", "r">>), Some(<<"X", "X", "Z">>), Some(<<"U", "S">>), Some(<<>>),
   Some(<<"R", "U", "P", "I", "A", "H">>), Some(<<"R", "$", " ">>)}
Addresses ==
  {None, Some(<<>>), Some(<<"T", "o", "k", "y", "o", ",", " ", "J", "a", "p", "a", "n">>), Some(<<"T", "o", "r", "o", "n", "t", "o", ",", " ", "C", "a", "n", "a", "d", "a">>), Some(<<"K", "Y", "O", "T", "O">>),
   Some(<<"1", "2", " ", "M", "a", "i", "n", " ", "S", "t">>), Some(<<"L", "a", "g", "o", "s", ",", " ", "N", "i", "g", "e", "r", "i", "a">>), Some(<<"P", "a", "r", "i", "s">>), Some(<<"D", "a", "l", "l", "a", "s", ",", " ", "U", "S">>)}
Languages == {None, Some(<<>>), Some(<<"F", "r", "e", "n", "c", "h">>), Some(<<"J", "a", "p", "a", "n", "e", "s", "e">>), Some(<<"e", "n">>)}

FormatCalls ==
  {[fn |-> "formatCurrency", amount |-> a, currencyCode |-> c, returned |-> None] :
     a \in Amounts, c \in CurrencyCodes}
DetectCalls ==
  {[fn |-> "detectCurrencyFromLocation", address |-> a, language |-> l, returned |-> None] :
     a \in Addresses, l \in Languages}

program == <<slice, client, page, storage, saves, synced, added>>

CallFormatCurrency ==
  /\ call.fn = "formatCurrency"
  /\ call.returned = None
  /\ call' = [call EXCEPT !.returned = Some(formatCurrency(call.amount, call.currencyCode))]
  /\ UNCHANGED program

CallDetectCurrencyFromLocation ==
  /\ call.fn = "detectCurrencyFromLocation"
  /\ call.returned = None
  /\ call' = [call EXCEPT
                !.returned = Some(detectCurrencyFromLocation(call.address, call.language))]
  /\ UNCHANGED program

\* ---- the helpers, called on every argument of the sets above
InitHelpers == InitStore(0, {Absent}) /\ call \in FormatCalls \cup DetectCalls
NextHelpers ==
  \/ CallFormatCurrency
  \/ CallDetectCurrencyFromLocation
SpecHelpers == InitHelpers /\ [][NextHelpers]_vars


\* ----------------------------------------------------------------- claims
Calls == DOMAIN att

\* C1 (SpecCap): history, in memory and as persisted, never holds more than
\* HistoryCap records; after more than HistoryCap successful extractions in a
\* row it holds exactly the HistoryCap most recently added, newest first.
C1_HistoryCapped ==
  /\ Len(history) <= HistoryCap
  /\ Len(loadHistoryFromStorage(storage)) <= HistoryCap
  /\ Len(added) > HistoryCap => history = SubSeq(added, 1, HistoryCap)

\* more than HistoryCap extractions in a row have succeeded, and the oldest of
\* their records is gone from history
C1_Evicted ==
  /\ Len(added) > HistoryCap
  /\ \A k \in DOMAIN history : history[k] # added[Len(added)]

\* C2 (SpecClient): a validation answer NOT_RECEIPT ends the call with the
\* not-a-receipt failure, the validation call being the only call it made.
C2_NotReceiptStops ==
  \A i \in Calls :
    (att[i].vres.kind = "text" /\ Trim(att[i].vres.text) = <<"NOT_RECEIPT">>) =>
      /\ att[i].pc = "returned"
      /\ ~att[i].result.success
      /\ att[i].result.data = None
      /\ att[i].result.error = MsgNotReceipt
      /\ att[i].calls = <<"validation">>

C2_NotReceiptAnswered ==
  \E i \in Calls :
    /\ att[i].vres = TextResult(<<"NOT_RECEIPT">>)
    /\ att[i].pc = "returned"
    /\ att[i].calls = <<"validation">>

\* the validation answer as validateReceiptImage reads it
Answered(i) == att[i].vres.kind \in {"text", "notext"}
SaysValid(i) ==
  att[i].vres.kind = "text" /\ Includes(Trim(att[i].vres.text), "VALID_RECEIPT")
SaysNot(i) ==
  att[i].vres.kind = "text" /\ Includes(Trim(att[i].vres.text), "NOT_RECEIPT")
SaysUnclear(i) ==
  att[i].vres.kind = "text" /\ Includes(Trim(att[i].vres.text), "UNCLEAR_IMAGE")

\* C3 (SpecClient): the validation call is the first call and the extraction
\* call the second and last, issued only when the validation answer contains
\* VALID_RECEIPT; any other answer ends the call after the one call, with the
\* not-a-receipt reason when it contains NOT_RECEIPT, else the unclear-image
\* reason when it contains UNCLEAR_IMAGE, else a could-not-analyze reason.
C3_ValidationGates ==
  \A i \in Calls :
    /\ att[i].calls \in {<<>>, <<"validation">>, <<"validation", "extraction">>}
    /\ "extraction" \in {att[i].calls[k] : k \in DOMAIN att[i].calls} => SaysValid(i)
    /\ (Answered(i) /\ ~SaysValid(i)) =>
         /\ att[i].pc = "returned"
         /\ att[i].calls = <<"validation">>
         /\ ~att[i].result.success
         /\ att[i].result.error =
              IF SaysNot(i) THEN MsgNotReceipt
              ELSE IF SaysUnclear(i) THEN MsgUnclear
              ELSE IF Trim(att[i].vres.text) = <<>> THEN MsgUnableToAnalyze
              ELSE MsgUndetermined
    /\ Cardinality({MsgNotReceipt, MsgUnclear, MsgUnableToAnalyze}) = 3
    /\ Cardinality({MsgNotReceipt, MsgUnclear, MsgUndetermined}) = 3

\* one call has its extraction call out, another was stopped by an answer
\* naming both NOT_RECEIPT and UNCLEAR_IMAGE
C3_GatedBothWays ==
  \E i, j \in Calls :
    /\ att[i].calls = <<"validation", "extraction">>
    /\ att[j].vres = TextResult(<<"NOT_RECEIPT", "UNCLEAR_IMAGE">>)
    /\ att[j].pc = "returned"

\* C4 (SpecClient): every call of extractReceiptData ends with a value that is
\* a success with a ReceiptData and no error, or a failure with a non-empty
\* message and no ReceiptData.
C4_ResultDiscriminated ==
  \A i \in Calls :
    att[i].pc = "returned" =>
      \/ /\ att[i].result.success
         /\ att[i].result.data # None
         /\ att[i].result.error = Undefined
      \/ /\ ~att[i].result.success
         /\ att[i].result.data = None
         /\ att[i].result.error \notin {Undefined, Null, ""}

\* the extraction call rejected with an Error whose message is empty
C4_EmptyMessageThrown ==
  \E i \in Calls :
    /\ att[i].pc = "returned"
    /\ att[i].eres = ThrowError("")

\* the thunk's catch recorded the fallback message in the place of the empty one
C5_FallbackShown ==
  /\ error = MsgThunkFallback
  /\ \E i \in Calls : att[i].pc = "rejected"

\* C5 (Spec): when an attempt fails, error becomes exactly the message of the
\* client's failure value, isLoading and isProcessing become false, and
\* history, in memory and persisted, and currentExtraction keep their values.
C5_FailureRecorded ==
  [][\A i \in Calls :
       (att[i].pc = "after75" /\ att'[i].pc = "rejected") =>
         /\ error' = att[i].result.error
         /\ ~isLoading' /\ ~isProcessing'
         /\ history' = history
         /\ storage' = storage
         /\ currentExtraction' = currentExtraction]_vars

\* C6 (Spec): when an attempt succeeds, currentExtraction is the returned
\* record, the record heads history with the earlier entries after it in their
\* order, progress is 100, error is null and the flags are false; from an empty
\* history the record, its id and timestamp set, is the only entry.
C6_SuccessRecorded ==
  [][\A i \in Calls :
       (att[i].pc = "after100" /\ att'[i].pc = "fulfilled") =>
         LET payload == att[i].result.data[1]
         IN  /\ currentExtraction' = Some(payload)
             /\ history'[1] = payload
             /\ Tail(history') = SubSeq(history, 1, Min(Len(history), HistoryCap - 1))
             /\ progress' = 100
             /\ error' = Null
             /\ ~isLoading' /\ ~isProcessing'
             /\ history = <<>> =>
                  /\ history' = <<payload>>
                  /\ payload.id \in 1..nextId
                  /\ payload.timestamp \in 1..nextId]_vars

\* both attempts succeeded: the first from an empty history, the second ahead
\* of the first
C6_TwoRecorded ==
  /\ \A i \in Calls : att[i].pc = "fulfilled"
  /\ Len(history) = 2
  /\ history = added
  /\ history[1].id # history[2].id
  /\ currentExtraction = Some(history[1])
  /\ progress = 100

\* C7 (Spec): the start of an attempt sets error to null, progress to 0 and
\* both loading flags, whatever an earlier attempt left.
C7_LoadingResets ==
  \A i \in Calls :
    att[i].pc = "pending" =>
      /\ error = Null
      /\ progress = 0
      /\ isLoading
      /\ isProcessing

\* a second attempt has just started after a first one was rejected
C7_StartedAfterFailure ==
  \E i, j \in Calls :
    /\ att[i].pc = "pending"
    /\ att[j].pc = "rejected"

\* a call that begins in this step ends in it, with the not-initialized
\* failure, no read of the file and no model call
FailsFast(i) ==
  /\ att'[i].pc = "returned"
  /\ att'[i].result = Failure(MsgNotInitialized)
  /\ att'[i].reads = 0
  /\ att'[i].calls = <<>>
Begins(i) == att[i].pc = "idle" /\ att'[i].pc # "idle"

\* C8 as stated (SpecClient): extractReceiptData fails fast whenever initialize
\* was never called or the most recent initialize call failed.
C8_FailsFastAfterFailedInit ==
  [][\A i \in Calls :
       (Begins(i) /\ lastInit \in {"never", "failed"}) => FailsFast(i)]_vars

\* C8 (SpecClient): extractReceiptData fails fast whenever no initialize call
\* has succeeded so far.
C8_FailsFastUninitialized ==
  [][\A i \in Calls : (Begins(i) /\ ~everInit) => FailsFast(i)]_vars

\* a call failed fast after initialize had been called and had failed
C8_FailedFast ==
  /\ lastInit = "failed"
  /\ ~everInit
  /\ \E i \in Calls :
       /\ att[i].pc = "returned"
       /\ att[i].result = Failure(MsgNotInitialized)
       /\ att[i].reads = 0

\* the parsed document's items are missing or no sequence, or one of them has
\* a name, price or quantity that is no string
Malformed(doc) ==
  \/ doc.isNull
  \/ doc.itemsKind # "array"
  \/ \E k \in DOMAIN doc.items :
       \/ doc.items[k].isNull
       \/ ~TypeofString(doc.items[k].name)
       \/ ~TypeofString(doc.items[k].price)
       \/ ~TypeofString(doc.items[k].quantity)
SchemaErrors == {MsgMissingItems, MsgBadItem}

\* C9 (Spec): an extraction answer that parses as JSON with items missing or
\* no sequence, or with an item whose name, price or quantity is no string,
\* fails with a schema-error message and no ReceiptData, and adds nothing to
\* history or currentExtraction; one whose items are all well typed passes.
C9_SchemaChecked ==
  [][\A i \in Calls :
       (/\ att[i].pc = "after75"
        /\ att'[i].pc # "after75"
        /\ att[i].eres.kind = "text"
        /\ ParsesAsJson(CleanText(att[i].eres.text))) =>
         IF Malformed(JSONparse(CleanText(att[i].eres.text)))
         THEN /\ ~att[i].result.success
              /\ att[i].result.error \in SchemaErrors
              /\ att[i].result.data = None
              /\ att'[i].pc = "rejected"
              /\ history' = history
              /\ storage' = storage
              /\ currentExtraction' = currentExtraction
         ELSE att[i].result.success]_vars

\* an answer whose second item is null came back as the engine's TypeError
C9_NullItemAnswered ==
  \E i \in Calls :
    /\ att[i].pc = "after75"
    /\ att[i].eres = TextResult(<<"{[null]}">>)
    /\ att[i].result = Failure(MsgNullName)

\* C10 as stated (Spec): for a history built by successive adds, loading the
\* persisted value yields the in-memory history.
C10_RoundTrip ==
  (added # <<>> /\ Len(history) <= HistoryCap) =>
    loadHistoryFromStorage(storage) = history

\* C10 (Spec): for a history built by successive adds whose latest write to
\* storage succeeded, loading the persisted value yields the in-memory history,
\* the same records in the same order.
C10_RoundTripWhenWritten ==
  (added # <<>> /\ Len(history) <= HistoryCap /\ synced) =>
    loadHistoryFromStorage(storage) = history

\* two adds from an empty history, the second one written
C10_TwoWritten ==
  /\ Len(added) = 2
  /\ history = added
  /\ synced
  /\ storage = JSONstringify(history)

\* the records of h whose fileName is not key, in their order
RECURSIVE WithoutFileName(_, _)
WithoutFileName(h, key) ==
  IF h = <<>> THEN <<>>
  ELSE IF Head(h).fileName = key THEN WithoutFileName(Tail(h), key)
       ELSE <<Head(h)>> \o WithoutFileName(Tail(h), key)

\* C11 (Spec): removeFromHistory(fileName) drops exactly the records whose
\* fileName is the key, all of them, keeps the others in their order and hands
\* the result to the storage write (best effort: the stored text is that of
\* the result when the write is taken); with no match history is unchanged and
\* no error is set, and the same removal again changes nothing more.
C11_RemovesByFileName ==
  [][\A f \in FileNames :
       removeFromHistory(f) =>
         /\ history' = WithoutFileName(history, f)
         /\ storage' \in {storage, JSONstringify(history')}
         /\ synced' => loadHistoryFromStorage(storage') = history'
         /\ error' = error
         /\ (\A k \in DOMAIN history : history[k].fileName # f) => history' = history
         /\ WithoutFileName(history', f) = history']_vars

\* two extractions, of a.jpg and then b.png, and a removal since: only the
\* record of b.png is left, in memory and in storage
C11_Removed ==
  /\ added = <<>>
  /\ saves = 0
  /\ Len(history) = 1
  /\ history[1].id = 2
  /\ history[1].fileName = "b.png"
  /\ synced
  /\ storage = JSONstringify(history)

\* C12 (Spec): clearCurrentExtraction and resetState leave history and the
\* persisted history as they were; removeFromHistory leaves currentExtraction,
\* error, progress and the loading flags as they were.
C12_HistoryAndCurrentApart ==
  [][/\ (clearCurrentExtraction \/ resetState) =>
          (history' = history /\ storage' = storage)
     /\ \A f \in FileNames :
          removeFromHistory(f) =>
            /\ currentExtraction' = currentExtraction
            /\ error' = error
            /\ progress' = progress
            /\ isLoading' = isLoading
            /\ isProcessing' = isProcessing]_vars

\* resetState after a success: data is gone, the record is still in history
\* and in storage
C12_ResetKeptHistory ==
  /\ data = None
  /\ added # <<>>
  /\ history = added
  /\ storage = JSONstringify(history)

\* C13 (SpecStart): load gives the empty list when the key is absent or holds
\* corrupt data and never fails; whatever the storage held, history is a list
\* after start-up, and add and remove work on it.
C13_HistoryAlwaysAList ==
  /\ loadHistoryFromStorage(Absent) = <<>>
  /\ loadHistoryFromStorage(Corrupt) = <<>>
  /\ historyIsArray
  /\ \A i \in Calls : att[i].pc # "thrown"

\* the storage held JSON text of a value that is no array, and the fulfilled
\* action of a successful extraction threw in its reducer
C13_AddThrew ==
  /\ ~historyIsArray
  /\ storage = NotAnArray
  /\ isLoading
  /\ \E i \in Calls : att[i].pc = "thrown"

\* C14 (Spec): when the write of the history to storage fails, the action that
\* asked for it (a fulfilled extraction, removeFromHistory, clearHistory,
\* saveToHistory) still changes the in-memory state as it does when the write
\* succeeds, the stored value stays, and no error is set by the failure.
C14_WriteFailureSwallowed ==
  [][~synced' =>
       /\ \A f \in FileNames :
            removeFromHistory(f) =>
              /\ history' = WithoutFileName(history, f)
              /\ storage' = storage
              /\ error' = error
       /\ clearHistory =>
            /\ history' = <<>>
            /\ storage' = storage
            /\ error' = error
       /\ (saveToHistory /\ data # None) =>
            /\ history' = <<data[1]>> \o SubSeq(history, 1, Min(Len(history), HistoryCap - 1))
            /\ storage' = storage
            /\ error' = error
       /\ \A i \in Calls :
            (att[i].pc = "after100" /\ att'[i].pc = "fulfilled") =>
              /\ history' = <<att[i].result.data[1]>>
                              \o SubSeq(history, 1, Min(Len(history), HistoryCap - 1))
              /\ currentExtraction' = Some(att[i].result.data[1])
              /\ storage' = storage
              /\ error' = Null
              /\ ~isLoading']_vars

\* an extraction succeeded while the storage took no write: the record is in
\* history and shown, the key is still absent, and no error is set
C14_AddedUnwritten ==
  /\ ~synced
  /\ added # <<>>
  /\ history = added
  /\ storage = Absent
  /\ currentExtraction = Some(history[1])
  /\ error = Null

\* an extraction that has started and has neither succeeded nor failed
InFlight(i) ==
  att[i].pc \in {"pending", "read1", "call1", "read2", "call2", "after75", "after100"}

\* C15 (SpecPage): while an extraction is in flight the trigger is disabled
\* (isLoading), so no second one is started: at most one extraction is in
\* flight, and at most one result is on its way to currentExtraction.
C15_Serialized ==
  /\ Cardinality({i \in Calls : InFlight(i)}) <= 1
  /\ (\E i \in Calls : InFlight(i)) => isLoading

\* a second extraction is in flight after the first one has ended
C15_SecondAfterFirst ==
  \E i, j \in Calls :
    /\ att[i].pc \in {"fulfilled", "rejected"}
    /\ att[j].pc = "call1"
    /\ isLoading

\* a file of a content type that is not accepted, or of more than 10 MB
Unacceptable(f) ==
  \/ f.type \notin {"image/jpeg", "image/jpg", "image/png", "application/pdf"}
  \/ f.size > 10 * 1024 * 1024
UnacceptableNames == {f.name : f \in {g \in PageFiles : Unacceptable(g)}}

\* C16 (SpecPage): a file of an unaccepted type or of more than 10 MB is
\* rejected with the message of its case, and nothing is started for it: it
\* never becomes the selected file, no extraction and no model call is ever
\* made for it, and no record of it enters the history.
C16_BadFileRejected ==
  [][/\ \A f \in PageFiles :
          (handleFileSelect(f) /\ Unacceptable(f)) =>
            /\ fileError' = IF f.size > 10 * 1024 * 1024
                                 /\ f.type \in {"image/jpeg", "image/jpg", "image/png",
                                                "application/pdf"}
                            THEN MsgFileSize ELSE MsgFileType
            /\ selectedFile' = selectedFile
            /\ att' = att
            /\ started' = started
     /\ (selectedFile' # None => ~Unacceptable(selectedFile'[1]))
     /\ \A i \in Calls : att'[i].file \notin UnacceptableNames
     /\ \A k \in DOMAIN history' : history'[k].fileName \notin UnacceptableNames]_vars

\* the oversized file was refused while a.jpg was selected, and the
\* extraction that is under way is the one of a.jpg
C16_RefusedThenExtracted ==
  /\ fileError = MsgFileSize
  /\ selectedFile # None
  /\ selectedFile[1].name = "a.jpg"
  /\ \E i \in Calls : att[i].pc = "call1" /\ att[i].file = "a.jpg"

\* a currency that is there: not null, not undefined, not the empty string
Populated(c) == c \notin {Null, Undefined, ""}
\* the records the store holds, in any of its slots
Held ==
  {history[k] : k \in DOMAIN history} \cup {data[k] : k \in DOMAIN data}
    \cup {currentExtraction[k] : k \in DOMAIN currentExtraction}

\* C17 (SpecPage): a successful extraction returns a ReceiptData whose
\* currency is the model's code when the model gave a non-empty one and "USD"
\* otherwise; so every record in currentExtraction and in history has a
\* currency that is neither null nor empty.
C17_CurrencyPopulated ==
  /\ \A r \in Held : Populated(r.currency)
  /\ \A i \in Calls :
       (att[i].pc \in {"after75", "after100"} /\ att[i].result.success) =>
         LET given == JSONparse(CleanText(att[i].eres.text)).currency
         IN  att[i].result.data[1].currency = IF Populated(given) THEN given ELSE "USD"

\* the history holds a record with the model's own code and one whose
\* currency the model left empty
C17_GivenAndDefaulted ==
  \E k, l \in DOMAIN history :
    /\ history[k].currency = "JPY"
    /\ history[l].currency = "USD"
    /\ history[l].id >= 1
    /\ history[l].items = <<>>

\* C18 (SpecKeys): initialize fails on the empty key, leaving the handle, and
\* on any other key puts a handle for that key in the place of the one before;
\* an extraction dispatched with the empty key is rejected with the
\* key-required message before any read or model call, and history, in memory
\* and persisted, and currentExtraction stay as they were.
C18_KeyRequired ==
  [][/\ \A k \in MoreKeys :
          initialize(k) =>
            IF k = "" THEN genAI' = genAI /\ lastInit' = "failed"
            ELSE genAI' = k /\ lastInit' = "ok"
     /\ \A i \in Calls :
          (att[i].pc = "pending" /\ att'[i] # att[i]) =>
            IF att[i].apiKey = ""
            THEN /\ att'[i].pc = "rejected"
                 /\ att[i].calls = <<>> /\ att[i].reads = 0
                 /\ error' = MsgKeyRequired
                 /\ ~isLoading' /\ ~isProcessing'
                 /\ genAI' = genAI
                 /\ history' = history
                 /\ storage' = storage
                 /\ currentExtraction' = currentExtraction
            ELSE /\ genAI' = att[i].apiKey
                 /\ att'[i].pc = "read1"]_vars

\* after a success under key1 the handle is the one of key2, and an
\* extraction dispatched with the empty key has been rejected
C18_EmptyKeyRejected ==
  /\ genAI = "key2"
  /\ lastInit = "failed"
  /\ error = MsgKeyRequired
  /\ currentExtraction # None
  /\ Len(history) = 1
  /\ \E i, j \in Calls : att[i].pc = "fulfilled" /\ att[j].pc = "rejected"

\* C19 (SpecTest): testApiKey(apiKey) puts a handle for a non-empty key in the
\* place of the one before and resolves, never rejecting, with true exactly
\* when its model call answered with a text that is not empty: with false on
\* the empty key (no call made), on a call that throws and on an answer with
\* no text or the empty text.
C19_KeyTest ==
  [][\A i \in Calls :
       /\ (att[i].pc = "idle" /\ att'[i].via = "test") =>
            IF att'[i].pc = "testcall"
            THEN genAI' = att'[i].apiKey /\ att'[i].apiKey # ""
            ELSE /\ att'[i].pc = "tested"
                 /\ att'[i].calls = <<>>
                 /\ att'[i].result = Tested(FALSE)
                 /\ genAI' = genAI
       /\ (att[i].pc = "testcall" /\ att'[i].pc # "testcall") =>
            /\ att'[i].pc = "tested"
            /\ att'[i].result.success =
                 (att'[i].eres.kind = "text" /\ Len(att'[i].eres.text) > 0)]_vars

\* one test resolved with true on an answer that does not say OK, after one
\* on the empty key had resolved with false
C19_TrueWithoutOK ==
  \E i, j \in Calls :
    /\ att[i].pc = "tested" /\ att[i].apiKey = "" /\ ~att[i].result.success
    /\ att[j].pc = "tested" /\ att[j].eres = TextResult(<<"prose">>)
    /\ att[j].result.success

\* a result with the id and the time of its making left out
Undated(result) ==
  IF result.success
  THEN [result EXCEPT !.data = <<[result.data[1] EXCEPT !.id = 0, !.timestamp = 0,
                                                        !.extraction_date = 0]>>]
  ELSE result

\* C20 (SpecFence): an extraction answer that is a JSON document between a
\* json fence or a bare fence and the closing fence, white space around them
\* or not, is parsed to the object the document alone is parsed to, and the
\* call returns what it returns for the document alone.
C20_FencePreservesPayload ==
  \A i \in Calls :
    (att[i].pc = "returned" /\ att[i].eres.kind = "text") =>
      \A d \in DocNames :
        att[i].eres.text \in Wrappings(d) =>
          /\ ParsesAsJson(CleanText(att[i].eres.text))
          /\ JSONparse(CleanText(att[i].eres.text)) = JSONparse(<<d>>)
          /\ Undated(att[i].result)
               = Undated(ExtractionOutcome(TextResult(<<d>>), att[i].file, 0, 0))

\* the full document came back between a json fence and the closing fence,
\* white space around them, and was extracted
C20_FencedExtracted ==
  \E i \in Calls :
    /\ att[i].pc = "returned"
    /\ att[i].eres.text = <<" ", "<fence>", "json", "\n", "{full}", "\n", "<fence>", "\n">>
    /\ att[i].result.success
    /\ att[i].result.data[1].currency = "JPY"
    /\ Len(att[i].result.data[1].items) = 2

\* the records of a list, and the step in which call i is fulfilled
Records(h) == {h[k] : k \in DOMAIN h}
Fulfils(i) == att[i].pc = "after100" /\ att'[i].pc = "fulfilled"

\* C21 (SpecCap): a successful extraction makes exactly one record, new to the
\* history; every record of the history after a step is a record of the
\* history before it, field for field, or the one record the step adds; a
\* record leaves the history only by removeFromHistory of its fileName, by
\* clearHistory or as one pushed beyond the cap by an add; currentExtraction
\* changes only to the new record or to nothing.
C21_RecordsImmutable ==
  [][/\ \A r \in Records(history') :
          \/ r \in Records(history)
          \/ \E i \in Calls : Fulfils(i) /\ r = att[i].result.data[1]
          \/ saveToHistory /\ data # None /\ r = data[1]
     /\ \A i \in Calls :
          Fulfils(i) =>
            /\ history'[1] = att[i].result.data[1]
            /\ \A k \in DOMAIN history : history[k].id # att[i].result.data[1].id
            /\ Len(history') = Min(Len(history) + 1, HistoryCap)
     /\ \A k \in DOMAIN history :
          history[k] \notin Records(history') =>
            \/ removeFromHistory(history[k].fileName)
            \/ clearHistory
            \/ /\ k >= HistoryCap
               /\ Len(history') = HistoryCap
               /\ saveToHistory \/ \E i \in Calls : Fulfils(i)
     /\ currentExtraction' # currentExtraction =>
          \/ currentExtraction' = None
          \/ \E i \in Calls : Fulfils(i) /\ currentExtraction' = Some(att[i].result.data[1])]_vars

\* two records were added to a full history: the two oldest are gone, and the
\* eight that are left from before are as they were loaded
C21_OldKeptAsLoaded ==
  /\ Len(added) = 2
  /\ Len(history) = HistoryCap
  /\ SubSeq(history, 3, HistoryCap) = SubSeq(OldList(HistoryCap), 1, HistoryCap - 2)

\* the records the store holds: those of the history, the current one and data
Held_Records ==
  Records(history)
    \cup (IF currentExtraction = None THEN {} ELSE {currentExtraction[1]})
    \cup (IF data = None THEN {} ELSE {data[1]})
Mirrors(r) ==
  /\ Len(r.products) = Len(r.items)
  /\ \A k \in DOMAIN r.items :
       /\ r.products[k].name = r.items[k].name
       /\ r.products[k].price = r.items[k].price
       /\ r.products[k].quantity = r.items[k].quantity
  /\ r.file_name = r.fileName
  /\ r.extraction_date = r.timestamp
  /\ r.total_spending = (IF r.total = Null THEN "#0" ELSE r.total)

\* C22 (SpecPage): in every record the store holds, products lists the items
\* in their order with the same name, price and quantity, file_name is
\* fileName, extraction_date is timestamp, and total_spending is total, or 0
\* when there is no total.
C22_MirrorsDerived == \A r \in Held_Records : Mirrors(r)

\* a receipt of two items with a total is the current one, above a record
\* with no total
C22_TotalAndNoTotal ==
  /\ currentExtraction # None
  /\ Len(currentExtraction[1].products) = 2
  /\ currentExtraction[1].total_spending = "4.00"
  /\ \E k \in DOMAIN history : history[k].total_spending = "#0"

FormatReturned == call.fn = "formatCurrency" /\ call.returned # None
\* the number an amount coerces to
Coerced(amount) == IF amount.type = "string" THEN parseFloat(amount.value) ELSE amount.value
GivenCode == IF call.currencyCode = None THEN USD ELSE call.currencyCode[1]

\* C23 (SpecHelpers): formatCurrency never throws; for an amount that coerces
\* to no number it returns "N/A" whatever the code is, and for a number and a
\* code the formatter rejects it returns the amount formatted as US dollars.
C23_FormatNeverThrows ==
  FormatReturned =>
    /\ call.returned[1] # RangeError
    /\ isNaN(Coerced(call.amount)) => call.returned[1] = NotAvailable
    /\ ~isNaN(Coerced(call.amount)) /\ ~IsWellFormedCurrencyCode(GivenCode) =>
         call.returned[1] =
           [kind |-> "formatted", locale |-> "en-US", currency |-> USD,
            negative |-> Coerced(call.amount).negative,
            cents |-> (Coerced(call.amount).thousandths + 5) \div 10]

\* "1.7a" with the code "US" came back as 1.70 US dollars
C23_RejectedCodeAsDollars ==
  /\ FormatReturned
  /\ call.amount = StringAmount(<<"1", ".", "7", "a">>)
  /\ call.currencyCode = Some(<<"U", "S">>)
  /\ call.returned[1].kind = "formatted"
  /\ call.returned[1].currency = USD
  /\ call.returned[1].cents = 170

DetectReturned == call.fn = "detectCurrencyFromLocation" /\ call.returned # None
\* the hints in lower case, the address first
Hints ==
  (IF call.address = None THEN <<>> ELSE toLowerCase(call.address[1]))
    \o <<" ">> \o (IF call.language = None THEN <<>> ELSE toLowerCase(call.language[1]))
Matching == {k \in DOMAIN patterns : Test(patterns[k].pattern, Hints)}
NoHint == call.address \in {None, Some(<<>>)} /\ call.language \in {None, Some(<<>>)}

\* C24 (SpecHelpers): detectCurrencyFromLocation returns the currency of the
\* first pattern of the list that matches the hints in lower case, "USD" when
\* none matches or there is no hint, and "JPY" for the address "Tokyo, Japan".
C24_FirstPatternWins ==
  DetectReturned =>
    /\ (NoHint \/ Matching = {}) => call.returned[1] = "USD"
    /\ (~NoHint /\ Matching # {}) =>
         \E k \in Matching :
           /\ \A j \in Matching : k <= j
           /\ call.returned[1] = patterns[k].currency
    /\ (call.address = Some(<<"T", "o", "k", "y", "o", ",", " ", "J", "a", "p", "a", "n">>)
          /\ call.language \in {None, Some(<<"e", "n">>)}) =>
         call.returned[1] = "JPY"

\* "KYOTO" in French: the patterns of France and of Japan both match, and the
\* one of France comes first
C24_TwoPatternsMatched ==
  /\ DetectReturned
  /\ call.address = Some(<<"K", "Y", "O", "T", "O">>)
  /\ call.language = Some(<<"F", "r", "e", "n", "c", "h">>)
  /\ \E j, k \in Matching : patterns[j].currency # patterns[k].currency
  /\ call.returned[1] = "EUR"

\* the call i has returned a record
Extracted(i) == att[i].pc \in {"after75", "after100"} /\ att[i].result.success
\* the document of its extraction answer
Answer(i) == JSONparse(CleanText(att[i].eres.text))
\* the quantities of the lines whose price is not negative, summed
QuantityValue(q) == CASE q = "1" -> 1 [] q = "2" -> 2 [] OTHER -> 0
NegativePrice(p) == p = "-2.00"
RECURSIVE PurchasedQuantity(_)
PurchasedQuantity(items) ==
  IF items = <<>> THEN 0
  ELSE (IF NegativePrice(Head(items).price) THEN 0 ELSE QuantityValue(Head(items).quantity))
         + PurchasedQuantity(Tail(items))
CountOf(n) == <<"#0", "#1", "#2", "#3", "#4">>[n + 1]

\* C25 (Spec): the totalItems of a returned record is the count the model's
\* answer gives when it gives one, and otherwise the sum of the quantities of
\* the items whose price is not negative.
C25_TotalItemsGivenOrDerived ==
  \A i \in Calls :
    Extracted(i) =>
      att[i].result.data[1].totalItems =
        IF Answer(i).totalItems \in Numbers
        THEN Answer(i).totalItems
        ELSE CountOf(PurchasedQuantity(Answer(i).items))

\* two coffees and no count in the answer: the record has no totalItems
C25_NoCountNotDerived ==
  \E i \in Calls :
    /\ Extracted(i)
    /\ Answer(i).items = <<Coffee>>
    /\ Answer(i).totalItems = Undefined
    /\ att[i].result.data[1].totalItems = Null

\* r[name], undefined for a field r has not
Field(r, name) == IF name \in DOMAIN r THEN r[name] ELSE Undefined
CopiedFields == {"storeName", "address", "phone", "date", "tax", "total", "totalDiscount"}

\* C26 (SpecPage): a returned record carries the storeName, address, phone,
\* date, tax, total and totalDiscount of the model's answer, each with the
\* value the answer gives and null or absent only when the answer gives none,
\* and the answer's items in their order.
C26_FieldsCopied ==
  \A i \in Calls :
    Extracted(i) =>
      /\ att[i].result.data[1].items = Answer(i).items
      /\ \A f \in CopiedFields :
           IF Answer(i)[f] \in {Null, Undefined}
           THEN Field(att[i].result.data[1], f) \in {Null, Undefined}
           ELSE Field(att[i].result.data[1], f) = Answer(i)[f]

\* the answer gave a totalDiscount of 2.00 and the record returned has no
\* such field, while its total is the answer's
C26_DiscountDropped ==
  \E i \in Calls :
    /\ Extracted(i)
    /\ Answer(i).totalDiscount = "2.00"
    /\ "totalDiscount" \notin DOMAIN att[i].result.data[1]
    /\ att[i].result.data[1].total = "4.00"

\* the orchestrator's states out of Loading
Succeeded ==
  /\ error = Null
  /\ currentExtraction # None
  /\ currentExtraction[1].id = nextId - 1
Failed == error # Null
\* the attempt i has begun and has not ended
Underway(i) ==
  att[i].pc \in {"pending", "read1", "call1", "read2", "call2", "after75", "after100"}

HistoryAction ==
  \/ \E i \in Calls : Fulfils(i)
  \/ saveToHistory /\ data # None
  \/ clearHistory
  \/ \E f \in FileNames : removeFromHistory(f)

\* C28 (Spec): while the latest write to storage has succeeded, the stored
\* list loads as the history in memory; a step that changes the history
\* writes the whole new list in that step when its write succeeds; and a step
\* of any other action changes neither the history nor the stored list.
C28_StoredIsHistory ==
  /\ [](synced => loadHistoryFromStorage(storage) = history)
  /\ [][/\ (history' # history \/ storage' # storage) => HistoryAction
        /\ (HistoryAction /\ synced') => storage' = JSONstringify(history')]_vars

\* a record was added and written, then removed by its file name, and the
\* list stored is the empty list
C28_RemovalWritten ==
  /\ synced
  /\ nextId > 1
  /\ history = <<>>
  /\ added = <<>>
  /\ storage = JSONstringify(<<>>)

\* C29 (Spec): no two entries of the history carry the same id, whatever
\* actions were dispatched, every successful extraction having made a fresh
\* id.
C29_IdsUnique ==
  \A k, l \in DOMAIN history : history[k].id = history[l].id => k = l

\* saveToHistory after a successful extraction: the record the extraction put
\* first in the history is there a second time
C29_SavedAgain ==
  /\ saves = 1
  /\ Len(history) >= 2
  /\ history[1] = history[2]
  /\ history[1].id >= 1
  /\ data = Some(history[1])

UndatedRecord(r) == [r EXCEPT !.id = 0, !.timestamp = 0, !.extraction_date = 0]
UndatedOption(o) == IF o = None THEN None ELSE Some(UndatedRecord(o[1]))
\* what an attempt's last action did: the flags, the error and the progress
\* it left, the data and the current record it set, without id and timestamp,
\* and what it put before the history it found
Written(old, new) ==
  [changed |-> new # old, value |-> IF new # old THEN UndatedOption(new) ELSE None]
Left(a) ==
  [isLoading |-> a.outcome.isLoading, isProcessing |-> a.outcome.isProcessing,
   error |-> a.outcome.error, progress |-> a.outcome.progress,
   data |-> Written(a.before.data, a.outcome.data),
   currentExtraction |-> Written(a.before.currentExtraction, a.outcome.currentExtraction),
   grown |-> Len(a.outcome.history) - Len(a.before.history),
   first |-> IF Len(a.outcome.history) > Len(a.before.history)
             THEN Some(UndatedRecord(a.outcome.history[1])) ELSE None,
   rest |-> SubSeq(a.outcome.history,
                   Len(a.outcome.history) - Len(a.before.history) + 1,
                   Len(a.outcome.history)) = a.before.history]
Over(a) == a.pc \in {"fulfilled", "rejected"}
SameButCountry(a, b) ==
  /\ a.file = b.file
  /\ a.apiKey = b.apiKey
  /\ a.reads = b.reads
  /\ a.vres = b.vres
  /\ a.eres = b.eres

====
